---- MODULE Spec2Model ----
(***************************************************************************)
(* A model of epiviz.gl's interactive core: the MouseReader's pan/zoom     *)
(* viewport (mouse-reader.js), the WebGLCanvasDrawer's dirty-flag frame    *)
(* loop (webgl-drawer) and the VertexShader compiler (webgl.js).           *)
(*                                                                         *)
(* JavaScript numbers are modelled as exact rationals <<n, d>> in lowest   *)
(* terms with d >= 0; d = 0 stands for the IEEE infinities (<<1,0>>,       *)
(* <<-1,0>>) that a division by zero produces.  Rounding of binary         *)
(* floating point is not modelled.                                         *)
(***************************************************************************)
EXTENDS Integers, Sequences, FiniteSets, TLC

----------------------------------------------------------------------------
(* Bounds of the model *)

\* number of wheel / pan events handled in one behaviour
MaxEvents == 2
\* element.clientWidth and element.clientHeight, in pixels
ElementWidth == 4
ElementHeight == 2

----------------------------------------------------------------------------
(* Exact arithmetic on JavaScript numbers *)

\* F applied to the value of x, with x evaluated once
Strict(x, F(_)) == CHOOSE r \in {F(v) : v \in {x}} : TRUE

Abs(n) == IF n < 0 THEN -n ELSE n

Sgn(n) == IF n < 0 THEN -1 ELSE IF n = 0 THEN 0 ELSE 1

RECURSIVE GCD(_, _)
GCD(a, b) == IF b = 0 THEN a ELSE GCD(b, a % b)

Norm(n, d) ==
  IF d = 0 THEN <<Sgn(n), 0>>
  ELSE LET g == GCD(Abs(n), Abs(d))
           s == IF d < 0 THEN -1 ELSE 1
       IN  <<(s * n) \div g, (s * d) \div g>>

Num(i) == <<i, 1>>

RAdd(a, b) == Norm(a[1] * b[2] + b[1] * a[2], a[2] * b[2])
RSub(a, b) == Norm(a[1] * b[2] - b[1] * a[2], a[2] * b[2])
RMul(a, b) == Norm(a[1] * b[1], a[2] * b[2])
RDiv(a, b) == Norm(a[1] * b[2], a[2] * b[1])
RLe(a, b) == a[1] * b[2] <= b[1] * a[2]
RLt(a, b) == a[1] * b[2] < b[1] * a[2]
RMax(a, b) == IF RLe(a, b) THEN b ELSE a
RMin(a, b) == IF RLe(a, b) THEN a ELSE b

----------------------------------------------------------------------------
(* utilities.js *)

\* a scale that leaves the intercept out
scaleNoIntercept(domain, range, x) ==
  RMul(RDiv(RSub(range[2], range[1]), RSub(domain[2], domain[1])), x)

\* scale(domain, range)(x)
scale(domain, range, x) ==
  LET domainLength == RSub(domain[2], domain[1])
      rangeLength == RSub(range[2], range[1])
      slope == RDiv(rangeLength, domainLength)
      intercept == RSub(range[2], RMul(slope, domain[2]))
  IN  RAdd(RMul(slope, x), intercept)

\* A JavaScript value of a channel: a number (a rational) or a string
NumVal(n, d) == [t |-> "num", v |-> Norm(n, d)]
StrVal(str) == [t |-> "str", v |-> str]

\* The specifications given to the visualization.  A track has its mark kind,
\* the domains of x and y (<<>> for a channel without a domain), its channel
\* objects, and the marks its data yields.
PointTrack ==
  [mark |-> "point", x |-> <<-10, 10>>, y |-> <<-10, 10>>,
   channels |-> [x |-> [attribute |-> "x"], y |-> [attribute |-> "y"],
                 color |-> [attribute |-> "sample"],
                 opacity |-> [value |-> NumVal(1, 2)]],
   data |-> << [x |-> -3, y |-> 2, color |-> "c1"],
               [x |-> 5, y |-> -7, color |-> "c2"] >>]

RectTrack ==
  [mark |-> "rect", x |-> <<0, 8>>, y |-> <<0, 4>>,
   channels |-> [x |-> [attribute |-> "start"], y |-> [attribute |-> "row"],
                 color |-> [value |-> StrVal("red")],
                 size |-> [attribute |-> "score"]],
   data |-> << [x |-> 2, y |-> 2, width |-> 2, height |-> 2, size |-> "s1"] >>]

FlatTrack ==
  [mark |-> "point", x |-> <<4, 12>>, y |-> <<>>,
   channels |-> [x |-> [attribute |-> "pos"], y |-> [value |-> NumVal(0, 1)]],
   data |-> << [x |-> 6, y |-> 0] >>]

Specifications == << <<PointTrack>>, <<RectTrack, FlatTrack>> >>

SpecIds == 1..Len(Specifications)

\* a track whose color value is no color
BadColorTrack ==
  [mark |-> "point", x |-> <<0, 8>>, y |-> <<0, 4>>,
   channels |-> [x |-> [attribute |-> "pos"], y |-> [attribute |-> "row"],
                 color |-> [value |-> StrVal("nocolor")]],
   data |-> << [x |-> 1, y |-> 1] >>]

\* the schemas given to the drawer: the specifications, and one whose second
\* track does not compile
Schemas == Specifications \o << <<RectTrack, BadColorTrack>> >>

SchemaIds == 1..Len(Schemas)

RECURSIVE smallestOf(_, _, _, _)
\* acc is <<>> for Number.POSITIVE_INFINITY, <<v>> for a value seen
smallestOf(tracks, dim, i, acc) ==
  IF i > Len(tracks) THEN acc
  ELSE LET dom == tracks[i][dim]
       IN  smallestOf(tracks, dim, i + 1,
             IF dom # <<>> /\ (acc = <<>> \/ dom[1] < acc[1])
             THEN <<dom[1]>> ELSE acc)

RECURSIVE largestOf(_, _, _, _)
\* acc is <<>> for Number.NEGATIVE_INFINITY, <<v>> for a value seen
largestOf(tracks, dim, i, acc) ==
  IF i > Len(tracks) THEN acc
  ELSE LET dom == tracks[i][dim]
       IN  largestOf(tracks, dim, i + 1,
             IF dom # <<>> /\ (acc = <<>> \/ dom[2] > acc[1])
             THEN <<dom[2]>> ELSE acc)

\* [smallestX, largestX, smallestY, largestY]
getViewportForSpecification(tracks) ==
  LET sx == smallestOf(tracks, "x", 1, <<>>)
      lx == largestOf(tracks, "x", 1, <<>>)
      sy == smallestOf(tracks, "y", 1, <<>>)
      ly == largestOf(tracks, "y", 1, <<>>)
  IN  << IF sx = <<>> THEN Num(-1) ELSE Num(sx[1]),
         IF lx = <<>> THEN Num(1) ELSE Num(lx[1]),
         IF sy = <<>> THEN Num(-1) ELSE Num(sy[1]),
         IF ly = <<>> THEN Num(1) ELSE Num(ly[1]) >>

----------------------------------------------------------------------------
(* webgl.js: VertexShader *)

\* Object.keys(DEFAULT_CHANNELS) of schema-processor, in insertion order
ChannelOrder ==
  <<"x", "y", "color", "size", "opacity", "shape", "height", "width">>

\* DEFAULT_CHANNELS of schema-processor
DEFAULT_CHANNELS ==
  [x |-> [value |-> StrVal("null"), numComponents |-> 1],
   y |-> [value |-> StrVal("null"), numComponents |-> 1],
   color |-> [value |-> NumVal(255, 1), numComponents |-> 1],
   size |-> [value |-> NumVal(1, 1), numComponents |-> 1],
   opacity |-> [value |-> NumVal(1, 1), numComponents |-> 1],
   shape |-> [value |-> StrVal("dot"), numComponents |-> 1],
   height |-> [value |-> NumVal(1, 1), numComponents |-> 1],
   width |-> [value |-> NumVal(1, 1), numComponents |-> 1]]

\* getDrawModeForTrack of schema-processor
getDrawModeForTrack(track) ==
  IF track.mark = "point" THEN "POINTS" ELSE "TRIANGLES"

\* d3-color's color(specifier), as <<r, g, b>>
NamedColors ==
  [red |-> <<255, 0, 0>>, blue |-> <<0, 0, 255>>, white |-> <<255, 255, 255>>,
   black |-> <<0, 0, 0>>]

\* x << n for a natural x with x * 2^n below 2^31, where the 32-bit wrap of
\* the shift does not act
shiftLeft(x, n) == x * (2 ^ n)

\* a | b for naturals, bit by bit
RECURSIVE bitOr(_, _)
bitOr(a, b) ==
  IF a = 0 THEN b
  ELSE IF b = 0 THEN a
  ELSE 2 * bitOr(a \div 2, b \div 2)
       + (IF a % 2 = 1 \/ b % 2 = 1 THEN 1 ELSE 0)

\* the components packed in the opposite order
rgbToHexSwapped(red, green, blue) ==
  bitOr(bitOr(shiftLeft(blue, 16), shiftLeft(green, 8)), shiftLeft(red, 0))

\* rgbToHex: (red << 16) | (green << 8) | (blue << 0)
rgbToHex(red, green, blue) ==
  bitOr(bitOr(shiftLeft(red, 16), shiftLeft(green, 8)), shiftLeft(blue, 0))

\* unpackColor(f) of vertexShaderSuffix, for a float f that holds an integer
unpackColor(f) ==
  LET r == f \div 65536
      g == (f - r * 65536) \div 256
      b == f - r * 65536 - g * 256
  IN  << Norm(r, 256), Norm(g, 256), Norm(b, 256) >>

\* d3-color's color(specifier): <<>> for null, returned for a specifier that
\* is no color
d3color(specifier) ==
  IF specifier.v \in DOMAIN NamedColors THEN <<NamedColors[specifier.v]>>
  ELSE <<>>

\* colorSpecifierToHex throws a TypeError: asColor is null at asColor.r
colorSpecifierToHexThrows(specifier) ==
  specifier.t = "str" /\ Len(d3color(specifier)) = 0

\* colorSpecifierToHex(specifier)
colorSpecifierToHex(specifier) ==
  IF specifier.t = "num"
  THEN NumVal(specifier.v[1] \div specifier.v[2], 1)
  ELSE LET asColor == NamedColors[specifier.v]
       IN  NumVal(rgbToHex(asColor[1], asColor[2], asColor[3]), 1)

\* JavaScript truthiness of track[channel].value
Truthy(channelObject) ==
  /\ "value" \in DOMAIN channelObject
  /\ IF channelObject.value.t = "num"
     THEN channelObject.value.v[1] # 0
     ELSE channelObject.value.v # ""

\* new VertexShader()
NewVertexShader ==
  [shader |-> << <<"baseVertexShader">> >>,
   uniforms |-> [c \in {} |-> NumVal(0, 1)],
   attributes |-> ("aVertexPosition" :> [numComponents |-> 2, data |-> <<>>]),
   drawMode |-> "",
   built |-> FALSE,
   lastMark |-> <<>>]

\* VertexShader.setDrawMode
setDrawMode(vs, drawMode) == [vs EXCEPT !.drawMode = drawMode]

\* a buffer registered without its declaration in the shader code
addChannelBufferUndeclared(vs, channel, numComponents) ==
  [vs EXCEPT
     !.attributes =
        (channel :> [numComponents |-> numComponents, data |-> <<>>]) @@ @]

\* VertexShader.addChannelBuffer
addChannelBuffer(vs, channel, numComponents) ==
  [vs EXCEPT
     !.attributes =
        (channel :> [numComponents |-> numComponents, data |-> <<>>]) @@ @,
     !.shader = Append(@, <<"attribute float", channel>>)]

\* VertexShader.setChannelUniform
setChannelUniform(vs, channel, uniform) ==
  [vs EXCEPT
     !.uniforms = (channel :> uniform) @@ @,
     !.shader = Append(@, <<"uniform float", channel>>)]

\* the body of the channel loop of VertexShader.fromTrack
fromTrackChannel(vsBuilder, track, channel) ==
  IF channel = "shape" THEN vsBuilder
  ELSE IF channel \in DOMAIN track.channels
  THEN IF Truthy(track.channels[channel])
       THEN setChannelUniform(vsBuilder, channel,
              IF channel = "color"
              THEN colorSpecifierToHex(track.channels[channel].value)
              ELSE track.channels[channel].value)
       ELSE IF channel = "y" \/ channel = "x" THEN vsBuilder
       ELSE addChannelBuffer(vsBuilder, channel,
              DEFAULT_CHANNELS[channel].numComponents)
  ELSE setChannelUniform(vsBuilder, channel, DEFAULT_CHANNELS[channel].value)

RECURSIVE fromTrackLoop(_, _, _)
fromTrackLoop(vsBuilder, track, i) ==
  IF i > Len(ChannelOrder) THEN vsBuilder
  ELSE fromTrackLoop(fromTrackChannel(vsBuilder, track, ChannelOrder[i]),
                     track, i + 1)

\* VertexShader.fromTrack
fromTrack(track) ==
  fromTrackLoop(setDrawMode(NewVertexShader, getDrawModeForTrack(track)),
                track, 1)

\* fromTrack throws: the color value it found is no color
fromTrackThrows(track) ==
  /\ "color" \in DOMAIN track.channels
  /\ Truthy(track.channels["color"])
  /\ colorSpecifierToHexThrows(track.channels["color"].value)

\* the track object after fromTrack: a color value it found is replaced by
\* its hex number
trackAfterFromTrack(track) ==
  IF "color" \in DOMAIN track.channels /\ Truthy(track.channels["color"])
  THEN [track EXCEPT
          !.channels =
             [channel \in DOMAIN @ |->
                IF channel = "color"
                THEN [@[channel] EXCEPT !.value = colorSpecifierToHex(@)]
                ELSE @[channel]]]
  ELSE track

\* VertexShader.fromSchema
fromSchema(tracks) == [i \in 1..Len(tracks) |-> fromTrack(tracks[i])]

\* fromSchema throws: fromTrack throws on one of the tracks
fromSchemaThrows(tracks) ==
  \E i \in 1..Len(tracks) : fromTrackThrows(tracks[i])

\* VertexCalculator.calculateForMark: the flat vertex list of one mark, its
\* coordinates taken as already mapped by the x and y scales
calculateForMark(track, mark) ==
  IF track.mark = "point" THEN <<mark.x, mark.y>>
  ELSE LET x1 == mark.x - mark.width \div 2
           x2 == mark.x + mark.width \div 2
           y1 == mark.y - mark.height \div 2
           y2 == mark.y + mark.height \div 2
       IN  <<x1, y1, x2, y1, x1, y2, x1, y2, x2, y1, x2, y2>>

\* mark[channel]
markChannel(mark, channel) ==
  IF channel \in DOMAIN mark THEN mark[channel] ELSE "undefined"

\* the pushes of the inner loop of addMarkToBuffers for one channel:
\* one per i with i < vertices.length / 2
channelPushesOnce(vertices, value) == <<value>>

channelPushes(vertices, value) ==
  [i \in 1..((Len(vertices) + 1) \div 2) |-> value]

\* VertexShader.addMarkToBuffers
addMarkToBuffers(vs, mark, vertices) ==
  [vs EXCEPT
     !.attributes =
        [channel \in DOMAIN @ |->
           IF channel = "aVertexPosition"
           THEN [@[channel] EXCEPT !.data = @ \o vertices]
           ELSE [@[channel] EXCEPT
                   !.data = @ \o channelPushes(vertices,
                                               markChannel(mark, channel))]],
     !.lastMark = <<mark>>]

\* buildShader without its test of this.built
buildShaderUnmemoized(vs) ==
  [vs EXCEPT !.shader = Append(@, <<"vertexShaderSuffix">>),
             !.built = TRUE]

\* VertexShader.buildShader: the shader object after the call
buildShader(vs) ==
  IF vs.built THEN vs
  ELSE [vs EXCEPT !.shader = Append(@, <<"vertexShaderSuffix">>),
                  !.built = TRUE]

----------------------------------------------------------------------------
(* State *)

VARIABLES
  \* MouseReader (mouse-reader.js)
  minX, maxX, minY, maxY,       \* data extent
  currentXRange, currentYRange, \* visible range, <<min, max>>
  lockedX, lockedY,             \* per-axis lock flags
  \* WebGLCanvasDrawer and its environment
  drawer,                       \* the fields of the drawer object
  scheduled,                    \* animation-frame requests not yet run
  loading,                      \* SchemaProcessors whose data is not loaded
  \* history of the last handler, for stating the properties
  ev,                           \* the last event handled and its inputs
  prevXRange, prevYRange,       \* the ranges when that handler started
  nEvents,                      \* wheel / pan events handled so far
  nSchemas,                     \* setSchema calls so far
  frame,                        \* the GPU work of the frame the handler ran
  rebuiltGen,                   \* the last setSchema call whose own data was
                                \* loaded into the buffers and rendered
  undrawn,                      \* a change no frame has drawn yet
  \* VertexShader.fromTrack followed on its own
  schemaTrack,                  \* the track object handed to fromTrack
  trackShader,                  \* <<>> or <<the VertexShader returned>>
  givenTrack,                   \* the track object as it was first given
  nCompiles,                    \* fromTrack calls on the track so far
  compileError,                 \* <<>> or <<the error the last call threw>>
  \* MouseReader: tools and selection
  tool,                         \* this.tool
  mouseDown,                    \* the mouseDown flag of init()
  currentSelectionPoints,       \* this._currentSelectionPoints, flat
  pointer,                      \* <<layerX, layerY>> of the pointer
  selected,                     \* the selections the last handler gave to
                                \* handler.selectPoints
  prevSelectionPoints,          \* _currentSelectionPoints when it started
  drag,                         \* of the last mousedown: its data point
                                \* (start), whether the button was held in
                                \* "box" ever since (box), whether a move
                                \* landed on another point (strayed),
                                \* whether the pointer has left since, the
                                \* tool being "pan" (left)
  nMouse,                       \* mouse events handled so far
  overlay,                      \* <<currentXRange, currentYRange>> last given
                                \* to SVGInteractor.updateView
  selectMarker,                 \* the points of the selection polygon, in
                                \* canvas coordinates
  \* a function followed on its own
  callArgs,                     \* the arguments of the call
  callResult                    \* <<>> or <<what the call returned>>

readerVars == <<minX, maxX, minY, maxY, currentXRange, currentYRange,
                lockedX, lockedY>>
drawerVars == <<drawer, scheduled, loading>>
historyVars == <<ev, prevXRange, prevYRange, nEvents, nSchemas, frame,
                 rebuiltGen, undrawn>>
compileVars == <<schemaTrack, trackShader, givenTrack, nCompiles,
                 compileError>>
selectVars == <<tool, mouseDown, currentSelectionPoints, pointer, selected,
                prevSelectionPoints, drag, nMouse>>
\* a call of a function of utilities.js or of the genome scale, on its own
pureVars == <<callArgs, callResult>>
vars == <<readerVars, drawerVars, historyVars, compileVars, selectVars,
          overlay, selectMarker, pureVars>>

Event(kind, wheelDelta, layerX, layerY, movementX, movementY) ==
  [kind |-> kind, wheelDelta |-> wheelDelta, layerX |-> layerX,
   layerY |-> layerY, movementX |-> movementX, movementY |-> movementY]

\* a setSchema call: whether it threw, and the frame requests and the track
\* shaders it found
SchemaEvent(threw, sched, shaders) ==
  [kind |-> "setSchema", wheelDelta |-> 0, layerX |-> 0, layerY |-> 0,
   movementX |-> 0, movementY |-> 0, threw |-> threw, scheduled |-> sched,
   trackShaders |-> shaders]

\* a populateBuffers call: the frame requests it found and the
\* SchemaProcessor that called back
LoadEvent(sched, helper) ==
  [kind |-> "populateBuffers", wheelDelta |-> 0, layerX |-> 0, layerY |-> 0,
   movementX |-> 0, movementY |-> 0, scheduled |-> sched, helper |-> helper]

----------------------------------------------------------------------------
(* webgl-drawer: WebGLCanvasDrawer, with the Drawer base class *)

\* number of setSchema calls in one behaviour
MaxSchemas == 2

\* no frame ran in the handler.  Of a frame that ran, dirty is the value of
\* needsAnimation it found.
NoFrame ==
  [ran |-> FALSE, dirty |-> FALSE, threw |-> FALSE, setUniforms |-> <<>>,
   clears |-> 0, draws |-> <<>>]

\* requestAnimationFrame: the id of the new request
requestAnimationFrame(sched) ==
  CHOOSE id \in 1..(Cardinality(sched) + 1) : id \notin sched

\* a render that cancels nothing
superRenderKeeps(d, sched) == sched

\* Drawer.render, "cancels current animation frame": the requests left
superRender(d, sched) ==
  IF d.lastFrame # 0 THEN sched \ {d.lastFrame} ELSE sched

\* Drawer.receiveViewport: the drawer after it was sent getViewport()
receiveViewport(d, viewportData) ==
  [d EXCEPT !.minX = viewportData.minX, !.maxX = viewportData.maxX,
            !.minY = viewportData.minY, !.maxY = viewportData.maxY,
            !.currentXRange = viewportData.xRange,
            !.currentYRange = viewportData.yRange,
            !.needsAnimation = TRUE]

\* a viewport that is not recomputed from the current ranges
getWebGLViewportStale(d) == <<Num(-1), Num(-1), Num(1), Num(1), Num(1)>>

\* a viewport whose scales are built from the current ranges
getWebGLViewportOfRange(d) ==
  LET x(v) == scale(d.currentXRange, <<Num(-1), Num(1)>>, v)
      y(v) == scale(d.currentYRange, <<Num(-1), Num(1)>>, v)
  IN  << x(d.currentXRange[1]), y(d.currentYRange[1]),
         x(d.currentXRange[2]), y(d.currentYRange[2]),
         RMax(Num(1), RMin(RDiv(Num(1), Num(2)), RDiv(Num(1), Num(2)))) >>

\* WebGLCanvasDrawer.getWebGLViewport
getWebGLViewport(d) ==
  LET scaleXWindowSpace(x) == scale(<<d.minX, d.maxX>>, <<Num(-1), Num(1)>>, x)
      scaleYWindowSpace(y) == scale(<<d.minY, d.maxY>>, <<Num(-1), Num(1)>>, y)
      pointSize ==
        RMax(Num(1),
             RMin(RDiv(Num(1), RSub(scaleXWindowSpace(d.currentXRange[2]),
                                    scaleXWindowSpace(d.currentXRange[1]))),
                  RDiv(Num(1), RSub(scaleYWindowSpace(d.currentYRange[2]),
                                    scaleYWindowSpace(d.currentYRange[1])))))
  IN  << scaleXWindowSpace(d.currentXRange[1]),
         scaleYWindowSpace(d.currentYRange[1]),
         scaleXWindowSpace(d.currentXRange[2]),
         scaleYWindowSpace(d.currentYRange[2]),
         pointSize >>

\* the dirty branch of animate: uniforms, clear and one draw per track shader
animateDirty(d, sched) ==
  LET viewport == getWebGLViewport(d)
      globalUniforms == [viewport |-> SubSeq(viewport, 1, 4),
                         pointSizeModifier |-> viewport[5]]
      id == requestAnimationFrame(sched)
  IN  IF Len(d.programInfos) < Len(d.trackShaders)
      THEN \* programInfos[index] is undefined: the frame throws
           [drawer |-> [d EXCEPT !.globalUniforms = globalUniforms],
            scheduled |-> sched,
            frame |-> [NoFrame EXCEPT !.ran = TRUE,
                                      !.dirty = d.needsAnimation,
                                      !.threw = TRUE]]
      ELSE [drawer |-> [d EXCEPT !.globalUniforms = globalUniforms,
                                 !.needsAnimation = FALSE,
                                 !.lastFrame = id],
            scheduled |-> sched \cup {id},
            frame |->
              [ran |-> TRUE, dirty |-> d.needsAnimation, threw |-> FALSE,
               setUniforms |->
                 [i \in 1..Len(d.trackShaders) |->
                    [global |-> globalUniforms,
                     track |-> d.trackShaders[i].uniforms]],
               clears |-> 1,
               draws |->
                 [i \in 1..Len(d.trackShaders) |->
                    [mode |-> d.trackShaders[i].drawMode,
                     count |->
                       Len(d.trackShaders[i].attributes["aVertexPosition"].data)
                         \div 2]]]]

\* a frame that draws whether or not the drawer is dirty
animateAlways(d, sched) == animateDirty(d, sched)

\* WebGLCanvasDrawer.animate
animate(d, sched) ==
  IF ~d.needsAnimation
  THEN LET id == requestAnimationFrame(sched)
       IN  [drawer |-> [d EXCEPT !.lastFrame = id],
            scheduled |-> sched \cup {id},
            frame |-> [NoFrame EXCEPT !.ran = TRUE]]
  ELSE animateDirty(d, sched)

\* render without its assignment of needsAnimation
renderedKeepsFlag(d) ==
  Strict([i \in 1..Len(d.trackShaders) |-> buildShader(d.trackShaders[i])],
         LAMBDA built :
           [d EXCEPT
              !.trackShaders = built,
              !.programInfos = [i \in 1..Len(built) |-> built[i].shader],
              !.globalUniforms =
                 [viewport |-> <<Num(-1), Num(-1), Num(1), Num(1)>>,
                  pointSizeModifier |-> Num(1)],
              !.bufferInfos = [i \in 1..Len(built) |-> built[i].attributes]])

\* the drawer as render leaves it for its call of animate
rendered(d) ==
  Strict([i \in 1..Len(d.trackShaders) |-> buildShader(d.trackShaders[i])],
         LAMBDA built :
           [d EXCEPT
              !.trackShaders = built,
              !.programInfos = [i \in 1..Len(built) |-> built[i].shader],
              !.globalUniforms =
                 [viewport |-> <<Num(-1), Num(-1), Num(1), Num(1)>>,
                  pointSizeModifier |-> Num(1)],
              !.bufferInfos = [i \in 1..Len(built) |-> built[i].attributes],
              !.needsAnimation = TRUE])

\* WebGLCanvasDrawer.render
render(d, sched) ==
  Strict(<<rendered(d), superRender(d, sched)>>,
         LAMBDA a : animate(a[1], a[2]))

RECURSIVE addMarks(_, _, _, _)
\* the inner loop of populateBuffers: every mark of one track
addMarks(vs, track, marks, j) ==
  IF j > Len(marks) THEN vs
  ELSE addMarks(addMarkToBuffers(vs, marks[j], calculateForMark(track, marks[j])),
                track, marks, j + 1)

\* the loops of populateBuffers.  trackShaders[i] is undefined for a track
\* past the end of trackShaders, and the first mark of such a track throws;
\* the tracks before it are filled by then.
fillTracks(shaders, tracks) ==
  [trackShaders |->
     [i \in 1..Len(shaders) |->
        IF i <= Len(tracks)
        THEN addMarks(shaders[i], tracks[i], tracks[i].data, 1)
        ELSE shaders[i]],
   threw |-> \E i \in (Len(shaders) + 1)..Len(tracks) : Len(tracks[i].data) > 0]

\* WebGLCanvasDrawer.populateBuffers
populateBuffers(d, sched, tracks) ==
  Strict(fillTracks(d.trackShaders, tracks),
         LAMBDA filled :
           IF filled.threw
           THEN [drawer |-> [d EXCEPT !.trackShaders = filled.trackShaders],
                 scheduled |-> sched, frame |-> NoFrame, threw |-> TRUE]
           ELSE [threw |-> FALSE] @@
                render([d EXCEPT !.trackShaders = filled.trackShaders], sched))

\* new SchemaProcessor(schema, callback), not yet loaded: the call that made
\* it (gen) and its schema (id).  For stating the properties it also keeps
\* whether another one was still loading when it was made (early) and the
\* latest setSchema call that replaced the track shaders (latestGen, latest).
NewSchemaProcessor(gen, id, early) ==
  [gen |-> gen, id |-> id, early |-> early, latestGen |-> gen, latest |-> id]

\* WebGLCanvasDrawer.setSchema
SetSchema(id) ==
  /\ nSchemas < MaxSchemas
  /\ scheduled' = superRender(drawer, scheduled)
  /\ IF fromSchemaThrows(Schemas[id])
     THEN \* the exception leaves setSchema before the assignment
          /\ UNCHANGED <<drawer, loading, undrawn>>
     ELSE /\ drawer' = [drawer EXCEPT !.trackShaders = fromSchema(Schemas[id])]
          /\ loading' = {[h EXCEPT !.latest = id, !.latestGen = nSchemas + 1] :
                            h \in loading}
                         \cup {NewSchemaProcessor(nSchemas + 1, id,
                                                  loading # {})}
          /\ undrawn' = TRUE
  /\ nSchemas' = nSchemas + 1
  /\ ev' = SchemaEvent(fromSchemaThrows(Schemas[id]), scheduled,
                       drawer.trackShaders)
  /\ frame' = NoFrame
  /\ prevXRange' = currentXRange
  /\ prevYRange' = currentYRange
  /\ UNCHANGED <<readerVars, nEvents, rebuiltGen, compileVars,
                 selectVars, overlay, selectMarker, pureVars>>

\* the SchemaProcessor of a setSchema call has its data and calls back
\* populateBuffers
DataLoaded(helper) ==
  /\ helper \in loading
  /\ \E r \in {populateBuffers(drawer, scheduled, Schemas[helper.id])} :
         /\ drawer' = r.drawer
         /\ scheduled' = r.scheduled
         /\ frame' = r.frame
         /\ undrawn' = ~(r.frame.ran /\ r.frame.dirty /\ ~r.frame.threw)
         /\ rebuiltGen' = IF ~r.threw /\ helper.gen = nSchemas
                          THEN helper.gen ELSE rebuiltGen
  /\ loading' = loading \ {helper}
  /\ ev' = LoadEvent(scheduled, helper)
  /\ prevXRange' = currentXRange
  /\ prevYRange' = currentYRange
  /\ UNCHANGED <<readerVars, nEvents, nSchemas, compileVars,
                 selectVars, overlay, selectMarker, pureVars>>

\* the browser runs a requested animation frame
Animate(id) ==
  /\ id \in scheduled
  /\ \E r \in {animate(drawer, scheduled \ {id})} :
         /\ drawer' = r.drawer
         /\ scheduled' = r.scheduled
         /\ frame' = r.frame
         /\ undrawn' = (undrawn /\ ~(r.frame.dirty /\ ~r.frame.threw))
  /\ ev' = Event("animate", 0, 0, 0, 0, 0)
  /\ prevXRange' = currentXRange
  /\ prevYRange' = currentYRange
  /\ UNCHANGED <<readerVars, loading, nEvents, nSchemas, rebuiltGen,
                 compileVars,
                 selectVars, overlay, selectMarker, pureVars>>

----------------------------------------------------------------------------
(* mouse-reader.js *)

\* divisor of event.wheelDelta in _onWheel
WheelDampen == 1000
\* divisor of the range width in _onPan
PanDampen == 1000

\* _calculateViewportSpot(canvasX, canvasY)
calculateViewportSpot(xRange, yRange, canvasX, canvasY) ==
  << scale(<<Num(0), Num(ElementWidth)>>, xRange, Num(canvasX)),
     scale(<<Num(ElementHeight), Num(0)>>, yRange, Num(canvasY)) >>

\* a validation that accepts every range
validateXRangeAlways(xRange) == TRUE

validateXRange(xRange) == RLe(xRange[1], xRange[2])

\* a validation that accepts every range
validateYRangeAlways(yRange) == TRUE

validateYRange(yRange) == RLe(yRange[1], yRange[2])

\* an interpolation that moves away from p when t is positive
interpolateAway(t, p, c) ==
  RAdd(RMul(RSub(Num(0), t), p), RMul(RAdd(Num(1), t), c))

\* t * p + (1 - t) * c
interpolate(t, p, c) == RAdd(RMul(t, p), RMul(RSub(Num(1), t), c))

\* the interpolated range without the clamp to the data extent
zoomedNoClamp(range, lo, hi, t, p) ==
  << interpolate(t, p, range[1]), interpolate(t, p, range[2]) >>

\* the range _onWheel computes for an axis before it validates it
zoomed(range, lo, hi, t, p) ==
  << RMax(interpolate(t, p, range[1]), lo),
     RMin(interpolate(t, p, range[2]), hi) >>

\* the x block of _onWheel without its test of lockedX
onWheelXIgnoringLock(locked, xRange, yRange, wheelDelta, layerX, layerY) ==
  LET t == RDiv(Num(-wheelDelta), Num(WheelDampen))
      inDataSpace == calculateViewportSpot(xRange, yRange, layerX, layerY)
      new == zoomed(xRange, minX, maxX, t, inDataSpace[1])
  IN  IF ~validateXRange(new) THEN xRange ELSE new

\* the x block of _onWheel
onWheelX(locked, xRange, yRange, wheelDelta, layerX, layerY) ==
  IF locked THEN xRange
  ELSE LET t == RDiv(Num(-wheelDelta), Num(WheelDampen))
           inDataSpace == calculateViewportSpot(xRange, yRange, layerX, layerY)
           new == zoomed(xRange, minX, maxX, t, inDataSpace[1])
       IN  IF ~validateXRange(new) THEN xRange ELSE new

\* the y block of _onWheel
onWheelY(locked, xRange, yRange, wheelDelta, layerX, layerY) ==
  IF locked THEN yRange
  ELSE LET t == RDiv(Num(-wheelDelta), Num(WheelDampen))
           inDataSpace == calculateViewportSpot(xRange, yRange, layerX, layerY)
           new == zoomed(yRange, minY, maxY, t, inDataSpace[2])
       IN  IF ~validateYRange(new) THEN yRange ELSE new

\* the range _onPan computes for the x axis before it validates it
pannedX(range, lo, hi, movement) ==
  LET xDampen == RDiv(RSub(range[2], range[1]), Num(PanDampen))
  IN  << RMax(RSub(range[1], RMul(Num(movement), xDampen)), lo),
         RMin(RSub(range[2], RMul(Num(movement), xDampen)), hi) >>

\* the range _onPan computes for the y axis before it validates it
pannedY(range, lo, hi, movement) ==
  LET yDampen == RDiv(RSub(range[2], range[1]), Num(PanDampen))
  IN  << RMax(RAdd(range[1], RMul(Num(movement), yDampen)), lo),
         RMin(RAdd(range[2], RMul(Num(movement), yDampen)), hi) >>

\* the x block of _onPan
onPanX(locked, xRange, movementX) ==
  IF locked THEN xRange
  ELSE LET new == pannedX(xRange, minX, maxX, movementX)
       IN  IF ~validateXRange(new) THEN xRange ELSE new

\* the y block of _onPan
onPanY(locked, yRange, movementY) ==
  IF locked THEN yRange
  ELSE LET new == pannedY(yRange, minY, maxY, movementY)
       IN  IF ~validateYRange(new) THEN yRange ELSE new

\* SVGInteractor.updateView: the ranges the overlay holds
updateView(xRange, yRange) == <<xRange, yRange>>

\* SVGInteractor._calculateViewportSpotInverse, with the ranges of updateView
calculateViewportSpotInverse(xRange, yRange, viewportX, viewportY) ==
  << scale(xRange, <<Num(0), Num(ElementWidth)>>, viewportX),
     scale(yRange, <<Num(ElementHeight), Num(0)>>, viewportY) >>

\* SVGInteractor.updateSelectView: the "points" attribute of the selection
\* polygon, as the sequence of its canvas points; <<>> for "".  The points
\* come in pairs.
updateSelectView(points, xRange, yRange) ==
  IF Len(points) = 4
  THEN LET topLeftCorner ==
             calculateViewportSpotInverse(xRange, yRange,
                                          points[1], points[2])
           bottomRightCorner ==
             calculateViewportSpotInverse(xRange, yRange,
                                          points[3], points[4])
       IN  << <<topLeftCorner[1], topLeftCorner[2]>>,
              <<topLeftCorner[1], bottomRightCorner[2]>>,
              <<bottomRightCorner[1], bottomRightCorner[2]>>,
              <<bottomRightCorner[1], topLeftCorner[2]>> >>
  ELSE IF Len(points) < 6 THEN <<>>
  ELSE [i \in 1..(Len(points) \div 2) |->
          calculateViewportSpotInverse(xRange, yRange,
                                       points[2 * i - 1], points[2 * i])]

\* the viewport as it was when the handler started
getViewportBefore(xRange, yRange) ==
  [minX |-> minX, maxX |-> maxX, minY |-> minY, maxY |-> maxY,
   xRange |-> currentXRange, yRange |-> currentYRange]

\* MouseReader.getViewport, with the ranges the handler leaves
getViewport(xRange, yRange) ==
  [minX |-> minX, maxX |-> maxX, minY |-> minY, maxY |-> maxY,
   xRange |-> xRange, yRange |-> yRange]

\* handler.sendDrawerState(viewport): the viewport reaches the drawer
sendDrawerState(viewport) ==
  /\ drawer' = receiveViewport(drawer, viewport)
  /\ undrawn' = TRUE
  /\ frame' = NoFrame
  /\ UNCHANGED <<scheduled, loading, nSchemas, rebuiltGen, compileVars,
                 pureVars>>

\* MouseReader.setSpecification: the viewport setter
SetSpecification(id) ==
  LET viewport == getViewportForSpecification(Specifications[id])
  IN  /\ minX' = viewport[1]
      /\ maxX' = viewport[2]
      /\ minY' = viewport[3]
      /\ maxY' = viewport[4]
      /\ currentXRange' = <<viewport[1], viewport[2]>>
      /\ currentYRange' = <<viewport[3], viewport[4]>>
      /\ ev' = Event("setSpecification", 0, 0, 0, 0, 0)
      /\ prevXRange' = currentXRange
      /\ prevYRange' = currentYRange
      /\ frame' = NoFrame
      /\ overlay' = updateView(<<viewport[1], viewport[2]>>,
                               <<viewport[3], viewport[4]>>)
      /\ selectMarker' = updateSelectView(currentSelectionPoints,
                                          <<viewport[1], viewport[2]>>,
                                          <<viewport[3], viewport[4]>>)
      /\ UNCHANGED <<lockedX, lockedY, nEvents, drawerVars, nSchemas,
                     rebuiltGen, undrawn, compileVars,
                     selectVars, pureVars>>

\* MouseReader._onWheel
OnWheel(wheelDelta, layerX, layerY) ==
  /\ UNCHANGED selectVars
  /\ nEvents < MaxEvents
  /\ LET newX == onWheelX(lockedX, currentXRange, currentYRange,
                          wheelDelta, layerX, layerY)
         newY == onWheelY(lockedY, newX, currentYRange,
                          wheelDelta, layerX, layerY)
     IN  /\ currentXRange' = newX
         /\ currentYRange' = newY
         /\ sendDrawerState(getViewport(newX, newY))
         /\ overlay' = updateView(newX, newY)
         /\ selectMarker' = updateSelectView(currentSelectionPoints,
                                             newX, newY)
  /\ ev' = Event("wheel", wheelDelta, layerX, layerY, 0, 0)
  /\ prevXRange' = currentXRange
  /\ prevYRange' = currentYRange
  /\ nEvents' = nEvents + 1
  /\ UNCHANGED <<minX, maxX, minY, maxY, lockedX, lockedY>>

\* MouseReader._onPan, as mousemove calls it
onPan(movementX, movementY) ==
  /\ nEvents < MaxEvents
  /\ LET newX == onPanX(lockedX, currentXRange, movementX)
         newY == onPanY(lockedY, currentYRange, movementY)
     IN  /\ currentXRange' = newX
         /\ currentYRange' = newY
         /\ sendDrawerState(getViewport(newX, newY))
         /\ overlay' = updateView(newX, newY)
         /\ selectMarker' = updateSelectView(currentSelectionPoints,
                                             newX, newY)
  /\ ev' = Event("pan", 0, 0, 0, movementX, movementY)
  /\ prevXRange' = currentXRange
  /\ prevYRange' = currentYRange
  /\ nEvents' = nEvents + 1
  /\ UNCHANGED <<minX, maxX, minY, maxY, lockedX, lockedY>>

\* a pan event on its own
OnPan(movementX, movementY) ==
  /\ onPan(movementX, movementY)
  /\ UNCHANGED selectVars

\* the setScroll reducer, whose flags reach the reader as lockedX / lockedY
SetScroll(axis, checked) ==
  /\ lockedX' = IF axis = "x" THEN checked ELSE lockedX
  /\ lockedY' = IF axis = "y" THEN checked ELSE lockedY
  /\ <<lockedX', lockedY'>> # <<lockedX, lockedY>>
  /\ ev' = Event("setScroll", 0, 0, 0, 0, 0)
  /\ prevXRange' = currentXRange
  /\ prevYRange' = currentYRange
  /\ frame' = NoFrame
  /\ UNCHANGED <<minX, maxX, minY, maxY, currentXRange, currentYRange,
                 nEvents, drawerVars, nSchemas, rebuiltGen, undrawn,
                 compileVars,
                 selectVars, overlay, selectMarker, pureVars>>

\* inputs of the events
WheelDeltas == {-2000, -500, 500}
LayerXs == {0, ElementWidth}
LayerYs == {ElementHeight \div 2}
\* <<movementX, movementY>> of the pan events
Movements == {<<-1500, 500>>, <<500, -1500>>}

\* new Drawer(viewportData): the constructor receives the viewport
NewDrawer(viewport) ==
  [minX |-> viewport[1], maxX |-> viewport[2],
   minY |-> viewport[3], maxY |-> viewport[4],
   currentXRange |-> <<viewport[1], viewport[2]>>,
   currentYRange |-> <<viewport[3], viewport[4]>>,
   needsAnimation |-> TRUE,
   lastFrame |-> 0,
   trackShaders |-> <<>>,
   programInfos |-> <<>>,
   bufferInfos |-> <<>>,
   globalUniforms |-> [viewport |-> <<Num(-1), Num(-1), Num(1), Num(1)>>,
                       pointSizeModifier |-> Num(1)]]

InitBase ==
  /\ \E id \in SpecIds :
       LET viewport == getViewportForSpecification(Specifications[id])
       IN  /\ minX = viewport[1]
           /\ maxX = viewport[2]
           /\ minY = viewport[3]
           /\ maxY = viewport[4]
           /\ currentXRange = <<viewport[1], viewport[2]>>
           /\ currentYRange = <<viewport[3], viewport[4]>>
           /\ prevXRange = <<viewport[1], viewport[2]>>
           /\ prevYRange = <<viewport[3], viewport[4]>>
           /\ drawer = NewDrawer(viewport)
  /\ lockedX = FALSE
  /\ lockedY = FALSE
  /\ scheduled = {}
  /\ loading = {}
  /\ ev = Event("init", 0, 0, 0, 0, 0)
  /\ nEvents = 0
  /\ nSchemas = 0
  /\ frame = NoFrame
  /\ rebuiltGen = 0
  /\ undrawn = FALSE
  /\ tool = "box"
  /\ mouseDown = FALSE
  /\ currentSelectionPoints = <<>>
  /\ pointer = <<0, ElementHeight \div 2>>
  /\ selected = <<>>
  /\ prevSelectionPoints = <<>>
  /\ drag = [box |-> FALSE, start |-> <<>>, strayed |-> FALSE,
             left |-> FALSE]
  /\ nMouse = 0
  /\ overlay = updateView(currentXRange, currentYRange)
  /\ selectMarker = <<>>

\* no track is followed through fromTrack on its own
InitNoTrack ==
  /\ InitBase
  /\ schemaTrack = <<>>
  /\ givenTrack = <<>>
  /\ trackShader = <<>>
  /\ nCompiles = 0
  /\ compileError = <<>>

\* and no function is followed on its own
Init ==
  /\ InitNoTrack
  /\ callArgs = <<>>
  /\ callResult = <<>>

\* the viewport: specification changes, wheel and pan events, axis locks
Next ==
  \/ \E id \in SpecIds : SetSpecification(id)
  \/ \E wd \in WheelDeltas, lx \in LayerXs, ly \in LayerYs : OnWheel(wd, lx, ly)
  \/ \E movement \in Movements : OnPan(movement[1], movement[2])
  \/ \E axis \in {"x", "y"}, checked \in BOOLEAN : SetScroll(axis, checked)

Spec == Init /\ [][Next]_vars

\* inputs of the events sent while the drawer is followed
DrawerWheelDeltas == {-500, 500}

\* the drawer: schema changes, data-loaded callbacks, frames, and the
\* viewports the reader sends
NextDrawer ==
  \/ \E id \in SchemaIds : SetSchema(id)
  \/ \E helper \in loading : DataLoaded(helper)
  \/ \E id \in scheduled : Animate(id)
  \/ \E wd \in DrawerWheelDeltas : OnWheel(wd, 0, ElementHeight \div 2)

SpecDrawer == Init /\ [][NextDrawer]_vars

----------------------------------------------------------------------------
(* VertexShader.fromTrack on the tracks a specification may contain *)

\* number of fromTrack calls on one track object
MaxCompiles == 2

\* the channel objects a track may give: none (<<>>), a literal value, or the
\* name of an attribute of the data
ColorObjects ==
  << <<>>, <<[value |-> StrVal("red")]>>, <<[value |-> StrVal("black")]>>,
     <<[value |-> NumVal(0, 1)]>>, <<[attribute |-> "sample"]>>,
     <<[value |-> StrVal("nocolor")]>> >>

SizeObjects ==
  << <<>>, <<[value |-> NumVal(2, 1)]>>, <<[value |-> NumVal(0, 1)]>>,
     <<[attribute |-> "score"]>> >>

OpacityObjects ==
  << <<>>, <<[value |-> NumVal(1, 2)]>>, <<[value |-> NumVal(0, 1)]>>,
     <<[attribute |-> "alpha"]>> >>

YObjects ==
  << <<[attribute |-> "row"]>>, <<[value |-> NumVal(3, 1)]>>,
     <<[type |-> "quantitative"]>> >>

\* the channel objects of "glow", a channel fromTrack does not know
GlowObjects == << <<>>, <<[value |-> NumVal(1, 1)]>> >>

\* track[channel], when the track lists the channel
ChannelOf(channel, object) ==
  IF Len(object) = 0 THEN [c \in {} |-> [attribute |-> ""]]
  ELSE channel :> object[1]

\* a point track with the given channel objects
CompileTrack(y, color, size, opacity, glow) ==
  [mark |-> "point", x |-> <<0, 8>>, y |-> <<0, 4>>,
   channels |-> ("x" :> [attribute |-> "start"]) @@ ChannelOf("y", y)
                  @@ ChannelOf("color", color) @@ ChannelOf("size", size)
                  @@ ChannelOf("opacity", opacity) @@ ChannelOf("glow", glow),
   data |-> <<>>]

\* VertexShader.fromTrack(track) on the followed track object
FromTrack ==
  /\ Len(schemaTrack) > 0
  /\ nCompiles < MaxCompiles
  /\ IF fromTrackThrows(schemaTrack[1])
     THEN /\ compileError' = <<[name |-> "TypeError"]>>
          /\ UNCHANGED <<trackShader, schemaTrack>>
     ELSE /\ trackShader' = <<fromTrack(schemaTrack[1])>>
          /\ schemaTrack' = <<trackAfterFromTrack(schemaTrack[1])>>
          /\ compileError' = <<>>
  /\ nCompiles' = nCompiles + 1
  /\ UNCHANGED <<givenTrack, readerVars, drawerVars, historyVars,
                 selectVars, overlay, selectMarker, pureVars>>

InitCompile ==
  /\ InitBase
  /\ \E y \in 1..Len(YObjects), color \in 1..Len(ColorObjects),
        size \in 1..Len(SizeObjects), opacity \in 1..Len(OpacityObjects),
        glow \in 1..Len(GlowObjects) :
       /\ schemaTrack = <<CompileTrack(YObjects[y], ColorObjects[color],
                                       SizeObjects[size],
                                       OpacityObjects[opacity],
                                       GlowObjects[glow])>>
       /\ givenTrack = schemaTrack
  /\ trackShader = <<>>
  /\ nCompiles = 0
  /\ compileError = <<>>
  /\ callArgs = <<>>
  /\ callResult = <<>>

NextCompile == FromTrack

SpecCompile == InitCompile /\ [][NextCompile]_vars

----------------------------------------------------------------------------
(* mouse-reader: the tools and the selection handlers of init() *)

\* mouse events in one behaviour
MaxMouse == 4

Tools == {"pan", "box", "lasso", "tooltip"}
\* <<layerX, layerY>> of the mouse events
Pointers == {<<0, ElementHeight \div 2>>, <<ElementWidth, ElementHeight \div 2>>}

\* Array.prototype.slice(0, end)
slice(points, end) ==
  SubSeq(points, 1, IF Len(points) < end THEN Len(points) ELSE end)

\* a mousedown that keeps the points of the selection before it
mousedownPointsKept(toolName, points, spot) ==
  IF toolName \in {"box", "lasso"} THEN points \o spot ELSE points

\* "mousedown": _currentSelectionPoints after the switch on this.tool
mousedownPoints(toolName, points, spot) ==
  CASE toolName = "pan" -> points
    [] toolName \in {"box", "lasso"} -> spot
    [] OTHER -> points

\* a mousemove that pushes the point in "box" as it does in "lasso"
mousemovePointsPushed(toolName, points, spot) ==
  IF toolName \in {"box", "lasso"} THEN points \o spot ELSE points

\* "mousemove" with the button down: _currentSelectionPoints after the
\* switch on this.tool
mousemovePoints(toolName, points, spot) ==
  CASE toolName = "box" -> slice(points, 2) \o spot
    [] toolName = "lasso" -> points \o spot
    [] OTHER -> points

\* a mouseup that selects whatever the selection holds
mouseupSelectsAny(toolName, points) ==
  toolName \in {"box", "lasso"} /\ Len(points) > 0

\* "mouseup": whether the switch on this.tool reaches _onSelect
mouseupSelects(toolName, points) ==
  CASE toolName = "box" -> Len(points) = 4
    [] toolName = "lasso" -> ~(Len(points) < 6)
    [] OTHER -> FALSE

\* "mouseup": _currentSelectionPoints when the handler returns
mouseupPoints(toolName, points) ==
  IF toolName \in {"box", "lasso"} /\ ~mouseupSelects(toolName, points)
  THEN <<>>
  ELSE points

\* _onSelect: handler.selectPoints(this._currentSelectionPoints)
onSelect(points) == <<points>>

\* what a mouse handler that leaves the viewport alone records
mouseEvent(kind, position) ==
  /\ ev' = Event(kind, 0, position[1], position[2], 0, 0)
  /\ prevXRange' = currentXRange
  /\ prevYRange' = currentYRange
  /\ frame' = NoFrame
  /\ UNCHANGED <<readerVars, drawerVars, nEvents, nSchemas, rebuiltGen,
                 undrawn, compileVars, pureVars>>

\* the setTool reducer, whose payload reaches the reader as this.tool
SetTool(toolName) ==
  /\ tool # toolName
  /\ tool' = toolName
  /\ drag' = [drag EXCEPT !.box = FALSE]
  /\ selected' = <<>>
  /\ prevSelectionPoints' = currentSelectionPoints
  /\ mouseEvent("setTool", pointer)
  /\ UNCHANGED <<overlay, selectMarker>>
  /\ UNCHANGED <<mouseDown, currentSelectionPoints, pointer, nMouse>>

\* the "mousedown" listener, at the place of the pointer
MouseDown ==
  /\ nMouse < MaxMouse
  /\ LET spot == calculateViewportSpot(currentXRange, currentYRange,
                                       pointer[1], pointer[2])
     IN  /\ mouseDown' = TRUE
         /\ currentSelectionPoints' =
              mousedownPoints(tool, currentSelectionPoints, spot)
         /\ drag' = [box |-> tool = "box", start |-> spot, strayed |-> FALSE,
                      left |-> FALSE]
  /\ selected' = <<>>
  /\ prevSelectionPoints' = currentSelectionPoints
  /\ nMouse' = nMouse + 1
  /\ mouseEvent("mousedown", pointer)
  /\ UNCHANGED <<overlay, selectMarker>>
  /\ UNCHANGED <<tool, pointer>>

\* the "mousemove" listener: the pointer reaches position
MouseMove(position, movement) ==
  /\ nMouse < MaxMouse
  /\ pointer' = position
  /\ selected' = <<>>
  /\ prevSelectionPoints' = currentSelectionPoints
  /\ nMouse' = nMouse + 1
  /\ IF mouseDown /\ tool = "pan"
     THEN /\ onPan(movement[1], movement[2])
          /\ UNCHANGED currentSelectionPoints
     ELSE /\ currentSelectionPoints' =
               IF mouseDown
               THEN mousemovePoints(tool, currentSelectionPoints,
                      calculateViewportSpot(currentXRange, currentYRange,
                                            position[1], position[2]))
               ELSE currentSelectionPoints
          /\ mouseEvent("mousemove", position)
          /\ overlay' = IF mouseDown
                        THEN updateView(currentXRange, currentYRange)
                        ELSE overlay
          /\ selectMarker' =
               IF mouseDown
               THEN updateSelectView(currentSelectionPoints',
                                     currentXRange, currentYRange)
               ELSE selectMarker
  /\ drag' = [drag EXCEPT !.strayed =
                @ \/ (mouseDown /\ drag.start #
                        calculateViewportSpot(currentXRange, currentYRange,
                                              position[1], position[2]))]
  /\ UNCHANGED <<tool, mouseDown>>

\* the "mouseup" listener, at the place of the pointer
MouseUp ==
  /\ nMouse < MaxMouse
  /\ mouseDown' = FALSE
  /\ selected' = IF mouseupSelects(tool, currentSelectionPoints)
                 THEN onSelect(currentSelectionPoints)
                 ELSE <<>>
  /\ currentSelectionPoints' = mouseupPoints(tool, currentSelectionPoints)
  /\ prevSelectionPoints' = currentSelectionPoints
  /\ nMouse' = nMouse + 1
  /\ mouseEvent("mouseup", pointer)
  /\ overlay' = IF tool = "lasso" /\ Len(currentSelectionPoints) < 6
                THEN updateView(currentXRange, currentYRange)
                ELSE overlay
  /\ selectMarker' = IF tool = "lasso" /\ Len(currentSelectionPoints) < 6
                     THEN updateSelectView(<<>>, currentXRange, currentYRange)
                     ELSE selectMarker
  /\ drag' = [drag EXCEPT !.box = @ /\ mouseDown]
  /\ UNCHANGED <<tool, pointer>>

\* a mouseleave that leaves the button flag alone
mouseleaveDownKept(toolName, down) == down

\* the button flag after the "mouseleave" listener
mouseleaveDown(toolName, down) == IF toolName = "pan" THEN FALSE ELSE down

\* the "mouseleave" listener
MouseLeave ==
  /\ nMouse < MaxMouse
  /\ mouseDown' = mouseleaveDown(tool, mouseDown)
  /\ selected' = <<>>
  /\ prevSelectionPoints' = currentSelectionPoints
  /\ nMouse' = nMouse + 1
  /\ mouseEvent("mouseleave", pointer)
  /\ drag' = [drag EXCEPT !.left = @ \/ tool = "pan"]
  /\ UNCHANGED <<overlay, selectMarker>>
  /\ UNCHANGED <<tool, currentSelectionPoints, pointer>>

NextSelect ==
  \/ \E toolName \in Tools : SetTool(toolName)
  \/ MouseDown
  \/ \E position \in Pointers, movement \in Movements :
       MouseMove(position, movement)
  \/ MouseUp
  \/ MouseLeave

SpecSelect == Init /\ [][NextSelect]_vars

----------------------------------------------------------------------------
(* utilities: scale, on its own *)

\* the ends of the domains and ranges, and the arguments of the scales
ScaleEnds == {-1, 0, 2}
ScaleArguments == {-1, 0, 1, 3}

\* everything but the call
callOnly ==
  UNCHANGED <<readerVars, drawerVars, historyVars, compileVars, selectVars,
              overlay, selectMarker>>

\* whether a JavaScript number is neither an infinity nor NaN
isFinite(x) == x[2] # 0

InitScale ==
  /\ InitNoTrack
  /\ \E d0 \in ScaleEnds, d1 \in ScaleEnds, r0 \in ScaleEnds,
        r1 \in ScaleEnds, x \in ScaleArguments :
       callArgs = [domain |-> <<Num(d0), Num(d1)>>,
                   range |-> <<Num(r0), Num(r1)>>, x |-> Num(x)]
  /\ callResult = <<>>

\* scale(domain, range) and scale(range, domain) are built and applied: the
\* first to both ends of the domain and to x, the second to what the first
\* gave for x.  scale has no throw statement.
Scale ==
  /\ callResult = <<>>
  /\ callResult' =
       LET y == scale(callArgs.domain, callArgs.range, callArgs.x)
       IN  <<[threw |-> <<>>,
              atD0 |-> scale(callArgs.domain, callArgs.range,
                             callArgs.domain[1]),
              atD1 |-> scale(callArgs.domain, callArgs.range,
                             callArgs.domain[2]),
              y |-> y,
              back |-> scale(callArgs.range, callArgs.domain, y)]>>
  /\ UNCHANGED callArgs
  /\ callOnly

NextScale == Scale

SpecScale == InitScale /\ [][NextScale]_vars

----------------------------------------------------------------------------
(* mouse-reader: one wheel event repeated.  JavaScript numbers have finite
   precision: here every range _onWheel stores is rounded to a grid, so that
   the states of a repeated zoom are finitely many as they are in doubles. *)

\* the grid holds the multiples of 1 / GridSteps
GridSteps == 8

\* the nearest number of the grid
roundToGrid(x) ==
  LET nearest(v) ==
        IF v[2] = 0 THEN v
        ELSE Norm((2 * v[1] * GridSteps + v[2]) \div (2 * v[2]), GridSteps)
  IN  Strict(x, nearest)

roundRange(range) ==
  LET ends(r) == << roundToGrid(r[1]), roundToGrid(r[2]) >>
  IN  Strict(range, ends)

\* wheelDelta of the events, zooming in (negative) and out
ZoomDeltas == {-2000, -1000, -500, -250, 500, 2000}
ZoomLayerXs == {0, 1, ElementWidth}

\* the ranges _onWheel leaves
wheelRanges(wheelDelta, layerX, layerY) ==
  LET afterX(newX) ==
        << newX, roundRange(onWheelY(lockedY, newX, currentYRange,
                                     wheelDelta, layerX, layerY)) >>
  IN  Strict(roundRange(onWheelX(lockedX, currentXRange, currentYRange,
                                 wheelDelta, layerX, layerY)), afterX)

\* MouseReader._onWheel, in a run of any length
wheelStep(wheelDelta, layerX, layerY) ==
  /\ \E new \in {wheelRanges(wheelDelta, layerX, layerY)} :
       /\ currentXRange' = new[1]
       /\ currentYRange' = new[2]
       /\ sendDrawerState(getViewport(new[1], new[2]))
       /\ overlay' = updateView(new[1], new[2])
       /\ selectMarker' = updateSelectView(currentSelectionPoints,
                                           new[1], new[2])
  /\ ev' = Event("wheel", wheelDelta, layerX, layerY, 0, 0)
  /\ prevXRange' = currentXRange
  /\ prevYRange' = currentYRange
  /\ UNCHANGED <<minX, maxX, minY, maxY, lockedX, lockedY, nEvents,
                 selectVars>>

\* the event that is repeated
InitZoom ==
  /\ InitNoTrack
  /\ \E wheelDelta \in ZoomDeltas, layerX \in ZoomLayerXs, layerY \in LayerYs :
       callArgs = [wheelDelta |-> wheelDelta, layerX |-> layerX,
                   layerY |-> layerY]
  /\ callResult = <<>>

\* some wheel event comes first
ZoomFirst(wheelDelta, layerX, layerY) ==
  /\ ev.kind = "init"
  /\ wheelStep(wheelDelta, layerX, layerY)

\* the same wheel event, again
ZoomAgain ==
  wheelStep(callArgs.wheelDelta, callArgs.layerX, callArgs.layerY)

NextZoom ==
  \/ \E wheelDelta \in ZoomDeltas, layerX \in ZoomLayerXs, layerY \in LayerYs :
       ZoomFirst(wheelDelta, layerX, layerY)
  \/ ZoomAgain

SpecZoom == InitZoom /\ [][NextZoom]_vars

----------------------------------------------------------------------------
(* utilities: rgbToHex, and unpackColor of the vertex shader, on their own *)

\* the values of a color component
ColorComponents == {0, 1, 127, 128, 255}

InitColor ==
  /\ InitNoTrack
  /\ \E red \in ColorComponents, green \in ColorComponents,
        blue \in ColorComponents :
       callArgs = [red |-> red, green |-> green, blue |-> blue]
  /\ callResult = <<>>

\* the color is packed by rgbToHex and unpacked by the shader
PackColor ==
  /\ callResult = <<>>
  /\ callResult' =
       LET f == rgbToHex(callArgs.red, callArgs.green, callArgs.blue)
       IN  <<[hex |-> f, unpacked |-> unpackColor(f)]>>
  /\ UNCHANGED callArgs
  /\ callOnly

NextColor == PackColor

SpecColor == InitColor /\ [][NextColor]_vars

----------------------------------------------------------------------------
(* genome-sizes: GenomeScale, on its own.  A string is the sequence of its
   characters. *)

\* a genome of genomeSizes: chromosome ids in insertion order, with sizes
\* small enough to follow every position
genomeSizes ==
  << [key |-> <<"1">>, size |-> 3],
     [key |-> <<"2">>, size |-> 2],
     [key |-> <<"X">>, size |-> 4] >>

Digits == <<"0", "1", "2", "3", "4", "5", "6", "7", "8", "9">>

\* the decimal digits of a natural number, as template literals write it
RECURSIVE numberToString(_)
numberToString(n) ==
  IF n < 10 THEN <<Digits[n + 1]>>
  ELSE numberToString(n \div 10) \o <<Digits[(n % 10) + 1]>>

\* String.prototype.substring(3)
substring3(str) == SubSeq(str, 4, Len(str))

\* String.prototype.split(":"), as far as its first two parts
split(str) ==
  LET colons == {i \in 1..Len(str) : str[i] = ":"}
      first == IF colons = {} THEN Len(str) + 1
               ELSE CHOOSE i \in colons : \A j \in colons : i <= j
      rest == SubSeq(str, first + 1, Len(str))
      later == {i \in 1..Len(rest) : rest[i] = ":"}
      second == IF later = {} THEN Len(rest) + 1
                ELSE CHOOSE i \in later : \A j \in later : i <= j
  IN  << SubSeq(str, 1, first - 1), SubSeq(rest, 1, second - 1) >>

\* parseInt of a string of decimal digits
RECURSIVE parseInt(_)
parseInt(str) ==
  IF Len(str) = 0 THEN 0
  ELSE 10 * parseInt(SubSeq(str, 1, Len(str) - 1))
       + ((CHOOSE d \in 1..10 : Digits[d] = str[Len(str)]) - 1)

\* chrStarts of createPairMapperToGenome: the running total before the key
RECURSIVE chrStartsUpTo(_, _, _)
chrStartsUpTo(chrSizes, chr, i) ==
  IF chrSizes[i].key = chr THEN 0
  ELSE chrSizes[i].size + chrStartsUpTo(chrSizes, chr, i + 1)

chrStarts(chrSizes, chr) == chrStartsUpTo(chrSizes, chr, 1)

\* the function createPairMapperToGenome returns
mapPairToGenomeIndex(chrSizes, chr, pairNum) ==
  chrStarts(chrSizes, chr) + pairNum

\* the last index of the genome
RECURSIVE genomeTotal(_, _)
genomeTotal(chrSizes, i) ==
  IF i > Len(chrSizes) THEN 0
  ELSE chrSizes[i].size + genomeTotal(chrSizes, i + 1)

\* a scale across the whole genome, whatever the domain
genomeDomainComplete(chrSizes, domain) ==
  << 1, genomeTotal(chrSizes, 1) >>

\* GenomeScale.constructor: firstPairInDomain and lastPairInDomain
genomeDomain(chrSizes, domain) ==
  LET start == split(substring3(domain[1]))
      end == split(substring3(domain[2]))
  IN  << mapPairToGenomeIndex(chrSizes, start[1], parseInt(start[2])),
         mapPairToGenomeIndex(chrSizes, end[1], parseInt(end[2])) >>

\* new GenomeScale(genomeId, domain)
NewGenomeScale(chrSizes, domain) ==
  [chrSizes |-> chrSizes, domain |-> domain,
   pairsInDomain |-> genomeDomain(chrSizes, domain)]

mapGenomeIndexToClipSpace(gs, index) ==
  scale(<<Num(gs.pairsInDomain[1]), Num(gs.pairsInDomain[2])>>,
        <<Num(-1), Num(1)>>, index)

mapGenomeIndexToClipSpaceInverse(gs, num) ==
  scale(<<Num(-1), Num(1)>>,
        <<Num(gs.pairsInDomain[1]), Num(gs.pairsInDomain[2])>>, num)

\* GenomeScale.toClipSpaceFromParts
toClipSpaceFromParts(gs, chr, pair) ==
  mapGenomeIndexToClipSpace(gs,
    Num(mapPairToGenomeIndex(gs.chrSizes, chr, pair)))

\* GenomeScale.toClipSpaceFromString
toClipSpaceFromString(gs, pairStr) ==
  LET parts == split(substring3(pairStr))
  IN  toClipSpaceFromParts(gs, parts[1], parseInt(parts[2]))

\* Math.floor; an infinity and NaN stay as they are
floor(x) == IF x[2] = 0 THEN x ELSE Num(x[1] \div x[2])

\* a scan that stops at the first chromosome that starts before the spot
RECURSIVE locateFromStart(_, _, _, _)
locateFromStart(chrSizes, genomeSpot, i, cumulativeTotal) ==
  IF i > Len(chrSizes) THEN <<>>
  ELSE IF isFinite(genomeSpot) /\ cumulativeTotal < genomeSpot[1]
       THEN << chrSizes[i].key, genomeSpot[1] - cumulativeTotal >>
       ELSE locateFromStart(chrSizes, genomeSpot, i + 1,
                            cumulativeTotal + chrSizes[i].size)

\* the loop of GenomeScale.inverse: <<chrId, chrLoc>> of the first chromosome
\* with cumulativeTotal + pairCount >= genomeSpot, <<>> when there is none.
\* genomeSpot is an integer <<n, 1>>, an infinity or NaN; no comparison with
\* NaN or with +Infinity holds.
RECURSIVE locate(_, _, _, _)
locate(chrSizes, genomeSpot, i, cumulativeTotal) ==
  IF i > Len(chrSizes) THEN <<>>
  ELSE IF \/ isFinite(genomeSpot)
             /\ cumulativeTotal + chrSizes[i].size >= genomeSpot[1]
          \/ genomeSpot = <<-1, 0>>
       THEN << chrSizes[i].key,
               IF isFinite(genomeSpot) THEN genomeSpot[1] - cumulativeTotal
               ELSE 0 >>
       ELSE locate(chrSizes, genomeSpot, i + 1,
                   cumulativeTotal + chrSizes[i].size)

\* GenomeScale.inverse(num), without formatting
inverse(gs, num) ==
  LET genomeSpot == floor(mapGenomeIndexToClipSpaceInverse(gs, num))
      found == locate(gs.chrSizes, genomeSpot, 1, 0)
  IN  IF Len(found) = 0
      THEN <<"c", "h", "r", "undefined", ":", "undefined">>
      ELSE IF ~isFinite(genomeSpot)
      THEN <<"c", "h", "r">> \o found[1] \o <<":", "-Infinity">>
      ELSE <<"c", "h", "r">> \o found[1] \o <<":">>
           \o (IF found[2] < 0 THEN <<"-">> \o numberToString(-found[2])
               ELSE numberToString(found[2]))

\* "chrC:P"
pairString(chr, pair) ==
  <<"c", "h", "r">> \o chr \o <<":">> \o numberToString(pair)

\* the positions of the genome, as <<chromosome id, position>>
GenomePositions ==
  UNION {{<<genomeSizes[i].key, pair>> : pair \in 1..genomeSizes[i].size} :
         i \in 1..Len(genomeSizes)}

InitGenome ==
  /\ InitNoTrack
  /\ \E lo \in GenomePositions, hi \in GenomePositions,
        at \in GenomePositions :
       callArgs = [domain |-> <<pairString(lo[1], lo[2]),
                                pairString(hi[1], hi[2])>>,
                   chr |-> at[1], pair |-> at[2]]
  /\ callResult = <<>>

\* a GenomeScale is built for the domain; both ends of the domain and the
\* position go to clip space, and the position comes back
GenomeRoundTrip ==
  /\ callResult = <<>>
  /\ callResult' =
       LET gs == NewGenomeScale(genomeSizes, callArgs.domain)
           clip == toClipSpaceFromString(gs,
                     pairString(callArgs.chr, callArgs.pair))
           index == mapPairToGenomeIndex(genomeSizes, callArgs.chr,
                                         callArgs.pair)
       IN  <<[pairsInDomain |-> gs.pairsInDomain,
              lo |-> toClipSpaceFromString(gs, callArgs.domain[1]),
              hi |-> toClipSpaceFromString(gs, callArgs.domain[2]),
              index |-> index,
              clip |-> clip,
              located |-> locate(genomeSizes, Num(index), 1, 0),
              inverse |-> inverse(gs, clip)]>>
  /\ UNCHANGED callArgs
  /\ callOnly

NextGenome == GenomeRoundTrip

SpecGenome == InitGenome /\ [][NextGenome]_vars

----------------------------------------------------------------------------
(* GenomeScale.getTickCoordsAndLabels, on its own *)

\* a genome of genomeSizes long enough for steps of 1, 10 and 100
tickGenomeSizes ==
  << [key |-> <<"1">>, size |-> 130],
     [key |-> <<"2">>, size |-> 30] >>

\* GenomeScale.completeScale: from "chr1:1" to the end of the last chromosome
completeScale(chrSizes) ==
  NewGenomeScale(chrSizes,
    << pairString(<<"1">>, 1),
       pairString(chrSizes[Len(chrSizes)].key,
                  chrSizes[Len(chrSizes)].size) >>)

\* the number a string converts to in an arithmetic expression
toNumber(str) ==
  IF str = <<"undefined">> \/ Len(str) = 0 THEN <<0, 0>>
  ELSE IF str = <<"-Infinity">> THEN <<-1, 0>>
  ELSE IF str[1] = "-" THEN Num(-parseInt(SubSeq(str, 2, Len(str))))
  ELSE Num(parseInt(str))

\* Math.floor(Math.log10(difference)) for an integer difference >= 1
RECURSIVE magnitudeOf(_)
magnitudeOf(difference) ==
  IF difference < 10 THEN 0 ELSE 1 + magnitudeOf(difference \div 10)

\* the remainder operator: the sign of the result is the dividend's
remainder(a, b) == IF a >= 0 THEN a % b ELSE -((-a) % b)

\* ticks that start at the start of the span
startingValueUnaligned(startPair, step) == startPair

\* startingValue: startPair - (startPair % 10 ** magnitude)
startingValue(startPair, step) == startPair - remainder(startPair, step)

\* the for loop: the values currValue takes while currValue < endPair
RECURSIVE tickValues(_, _, _)
tickValues(currValue, endPair, step) ==
  IF currValue < endPair
  THEN <<currValue>> \o tickValues(currValue + step, endPair, step)
  ELSE <<>>

\* the values of the loop for a span within one chromosome.  A difference
\* that is NaN, infinite, zero or negative makes startingValue NaN, and the
\* loop condition never holds.
sameChrTickValues(startPair, endPair) ==
  IF ~isFinite(startPair) \/ ~isFinite(endPair)
     \/ endPair[1] - startPair[1] <= 0
  THEN <<>>
  ELSE LET step == 10 ^ magnitudeOf(endPair[1] - startPair[1])
       IN  tickValues(startingValue(startPair[1], step), endPair[1], step)

\* GenomeScale.getTickCoordsAndLabels(start, end); the labels are kept
\* without the number format
getTickCoordsAndLabels(gs, start, end) ==
  LET startParts == split(substring3(inverse(gs, start)))
      endParts == split(substring3(inverse(gs, end)))
      values == IF startParts[1] = endParts[1]
                THEN sameChrTickValues(toNumber(startParts[2]),
                                       toNumber(endParts[2]))
                ELSE [i \in 1..Len(gs.chrSizes) |-> 1]
      toReturn ==
        IF startParts[1] = endParts[1]
        THEN [i \in 1..Len(values) |->
                toClipSpaceFromParts(gs, startParts[1], values[i])]
        ELSE [i \in 1..Len(gs.chrSizes) |->
                toClipSpaceFromParts(gs, gs.chrSizes[i].key, 1)]
  IN  [startChr |-> startParts[1], startPair |-> toNumber(startParts[2]),
       endChr |-> endParts[1], endPair |-> toNumber(endParts[2]),
       tickValues |-> values,
       tickCoords |-> toReturn,
       tickLabels |-> [i \in 1..Len(toReturn) |-> inverse(gs, toReturn[i])]]

\* the positions the ends of the visible span are taken from
TickPositions ==
  {<<(<<"1">>), pair>> : pair \in {1, 5, 10, 14, 15, 99, 100, 115, 130}}
  \cup {<<(<<"2">>), pair>> : pair \in {1, 12, 30}}

InitTicks ==
  /\ InitNoTrack
  /\ \E from \in TickPositions, to \in TickPositions :
       callArgs = [from |-> from, to |-> to]
  /\ callResult = <<>>

\* the ticks of the span between the two positions, on the complete scale
Ticks ==
  /\ callResult = <<>>
  /\ callResult' =
       LET gs == completeScale(tickGenomeSizes)
       IN  <<getTickCoordsAndLabels(gs,
               toClipSpaceFromParts(gs, callArgs.from[1], callArgs.from[2]),
               toClipSpaceFromParts(gs, callArgs.to[1], callArgs.to[2]))>>
  /\ UNCHANGED callArgs
  /\ callOnly

NextTicks == Ticks

SpecTicks == InitTicks /\ [][NextTicks]_vars


----------------------------------------------------------------------------
(* Properties of the viewport (Spec) *)

Inverted(range) == RLt(range[2], range[1])

WheelT == RDiv(Num(-ev.wheelDelta), Num(WheelDampen))

\* the data-space point under the pointer when the last event started
PointerSpot == calculateViewportSpot(prevXRange, prevYRange, ev.layerX, ev.layerY)

\* C1: after any sequence of setSpecification, wheel and pan events the
\* current range of each axis lies inside the data extent:
\* minX <= currentXRange[0], currentXRange[1] <= maxX, and the same for y.
C1_RangeInsideExtent ==
  /\ RLe(minX, currentXRange[1])
  /\ RLe(currentXRange[2], maxX)
  /\ RLe(minY, currentYRange[1])
  /\ RLe(currentYRange[2], maxY)

\* a pan moved the x range against the upper edge of the extent, where it
\* was clamped
C1_Witness ==
  /\ ev.kind = "pan"
  /\ currentXRange # prevXRange
  /\ RLt(prevXRange[2], maxX)
  /\ currentXRange[2] = maxX
  /\ RLt(maxX, RSub(prevXRange[2],
                    RMul(Num(ev.movementX),
                         RDiv(RSub(prevXRange[2], prevXRange[1]),
                              Num(PanDampen)))))

\* C2: after any sequence of wheel and pan events neither axis's range is
\* inverted: currentRange[0] <= currentRange[1] when every handler returns.
C2_NeverInverted ==
  /\ RLe(currentXRange[1], currentXRange[2])
  /\ RLe(currentYRange[1], currentYRange[2])

\* a wheel event whose interpolated x range was inverted has been handled
C2_Witness ==
  /\ ev.kind = "wheel"
  /\ ~lockedX
  /\ RLt(prevXRange[1], prevXRange[2])
  /\ Inverted(zoomed(prevXRange, minX, maxX, WheelT, PointerSpot[1]))

\* C3: a wheel or pan event received while an axis is locked leaves that
\* axis's range exactly as it was; the other, unlocked axis gets the range
\* the handler computes for it.
C3_LockedAxisUnchanged ==
  /\ ev.kind \in {"wheel", "pan"} /\ lockedX => currentXRange = prevXRange
  /\ ev.kind \in {"wheel", "pan"} /\ lockedY => currentYRange = prevYRange
  /\ ev.kind = "wheel" /\ lockedX /\ ~lockedY =>
       currentYRange =
         LET new == zoomed(prevYRange, minY, maxY, WheelT, PointerSpot[2])
         IN  IF Inverted(new) THEN prevYRange ELSE new
  /\ ev.kind = "wheel" /\ lockedY /\ ~lockedX =>
       currentXRange =
         LET new == zoomed(prevXRange, minX, maxX, WheelT, PointerSpot[1])
         IN  IF Inverted(new) THEN prevXRange ELSE new
  /\ ev.kind = "pan" /\ lockedX /\ ~lockedY =>
       currentYRange =
         LET new == pannedY(prevYRange, minY, maxY, ev.movementY)
         IN  IF Inverted(new) THEN prevYRange ELSE new
  /\ ev.kind = "pan" /\ lockedY /\ ~lockedX =>
       currentXRange =
         LET new == pannedX(prevXRange, minX, maxX, ev.movementX)
         IN  IF Inverted(new) THEN prevXRange ELSE new

\* a wheel event arrived with x locked and y unlocked, and changed y
C3_Witness ==
  /\ ev.kind = "wheel"
  /\ lockedX
  /\ ~lockedY
  /\ currentXRange # <<minX, maxX>>
  /\ currentYRange # prevYRange

\* C4: when the interpolated (zoom) or translated (pan) and clamped range of
\* an unlocked axis has min > max, the axis's range after the handler is its
\* range before the handler, and the other axis is processed on its own.
C4_RollbackOnInvalid ==
  /\ ev.kind = "wheel" /\ ~lockedX
       /\ Inverted(zoomed(prevXRange, minX, maxX, WheelT, PointerSpot[1]))
     => currentXRange = prevXRange
  /\ ev.kind = "wheel" /\ ~lockedY
       /\ Inverted(zoomed(prevYRange, minY, maxY, WheelT, PointerSpot[2]))
     => currentYRange = prevYRange
  /\ ev.kind = "pan" /\ ~lockedX
       /\ Inverted(pannedX(prevXRange, minX, maxX, ev.movementX))
     => /\ currentXRange = prevXRange
        /\ ~lockedY /\ ~Inverted(pannedY(prevYRange, minY, maxY, ev.movementY))
           => currentYRange = pannedY(prevYRange, minY, maxY, ev.movementY)
  /\ ev.kind = "pan" /\ ~lockedY
       /\ Inverted(pannedY(prevYRange, minY, maxY, ev.movementY))
     => /\ currentYRange = prevYRange
        /\ ~lockedX /\ ~Inverted(pannedX(prevXRange, minX, maxX, ev.movementX))
           => currentXRange = pannedX(prevXRange, minX, maxX, ev.movementX)

\* a pan was rolled back on x, being past the extent, and moved y
C4_Witness ==
  /\ ev.kind = "pan"
  /\ ~lockedX
  /\ ~lockedY
  /\ Inverted(pannedX(prevXRange, minX, maxX, ev.movementX))
  /\ currentXRange = prevXRange
  /\ currentYRange # prevYRange

----------------------------------------------------------------------------
(* Properties of the drawer (SpecDrawer) *)

\* x of [lo, hi] in clip space [-1, 1]
ClipSpace(lo, hi, x) ==
  RSub(RDiv(RMul(Num(2), RSub(x, lo)), RSub(hi, lo)), Num(1))

\* the clip-space rectangle of the drawer's current ranges
ClipViewport ==
  << ClipSpace(drawer.minX, drawer.maxX, drawer.currentXRange[1]),
     ClipSpace(drawer.minY, drawer.maxY, drawer.currentYRange[1]),
     ClipSpace(drawer.minX, drawer.maxX, drawer.currentXRange[2]),
     ClipSpace(drawer.minY, drawer.maxY, drawer.currentYRange[2]) >>

\* C5: an animation frame that runs while the dirty flag is false sets no
\* uniform, clears nothing and issues no draw call; it only requests the
\* next frame.
C5_CleanFrameDoesNoGpuWork ==
  frame.ran /\ ~frame.dirty =>
    /\ frame.setUniforms = <<>>
    /\ frame.clears = 0
    /\ frame.draws = <<>>
    /\ ~frame.threw
    /\ drawer.lastFrame \in scheduled

\* the browser ran a frame while the drawer, holding two programs, was clean
C5_Witness ==
  /\ ev.kind = "animate"
  /\ frame.ran
  /\ ~frame.dirty
  /\ Len(drawer.programInfos) = 2

\* C6: an animation frame that runs while the dirty flag is true recomputes
\* the clip-space viewport and the point-size modifier from the current
\* ranges, clears once, issues exactly one draw call per track program, and
\* leaves the dirty flag false.
C6_DirtyFrameDraws ==
  frame.ran /\ frame.dirty =>
    /\ ~frame.threw
    /\ drawer.globalUniforms.viewport = ClipViewport
    /\ drawer.globalUniforms.pointSizeModifier =
         RMax(Num(1),
              RMin(RDiv(Num(1), RSub(ClipViewport[3], ClipViewport[1])),
                   RDiv(Num(1), RSub(ClipViewport[4], ClipViewport[2]))))
    /\ frame.clears = 1
    /\ Len(frame.draws) = Len(drawer.programInfos)
    /\ Len(frame.draws) = Len(drawer.trackShaders)
    /\ \A i \in 1..Len(frame.draws) :
         /\ frame.draws[i].mode = drawer.trackShaders[i].drawMode
         /\ frame.setUniforms[i].global = drawer.globalUniforms
    /\ ~drawer.needsAnimation

\* the browser ran a dirty frame over two programs after a zoom
C6_Witness ==
  /\ ev.kind = "animate"
  /\ frame.ran
  /\ frame.dirty
  /\ Len(frame.draws) = 2
  /\ drawer.currentXRange # <<drawer.minX, drawer.maxX>>

C8_NoFrameDuringRebuild ==
  frame.ran => rebuiltGen = nSchemas

\* C9: after populateBuffers every per-vertex channel buffer of a track
\* holds one value per vertex: its length is the position buffer's length
\* divided by two.
C9_OneValuePerVertex ==
  \A i \in 1..Len(drawer.trackShaders) :
    LET attributes == drawer.trackShaders[i].attributes
    IN  \A channel \in DOMAIN attributes \ {"aVertexPosition"} :
          2 * Len(attributes[channel].data) =
            Len(attributes["aVertexPosition"].data)

\* a rect track's six vertices have six values in its size buffer
C9_Witness ==
  /\ ev.kind = "populateBuffers"
  /\ \E i \in 1..Len(drawer.trackShaders) :
       LET attributes == drawer.trackShaders[i].attributes
       IN  /\ drawer.trackShaders[i].drawMode = "TRIANGLES"
           /\ Len(attributes["aVertexPosition"].data) = 12
           /\ \E channel \in DOMAIN attributes \ {"aVertexPosition"} :
                Len(attributes[channel].data) = 6

----------------------------------------------------------------------------
(* Properties of the compiled track programs (SpecCompile) *)

\* the channels fromTrack registers as a uniform or as a buffer
RegisteredChannels == {"color", "size", "opacity", "height", "width"}

\* C10: compiling a track registers every channel other than x, y and shape
\* for which the track gives a literal value as a uniform with that value
\* (a color as its hex number) and not as a per-vertex buffer; a channel
\* given by attribute as a per-vertex buffer; and an omitted channel as a
\* uniform with the channel's default value.
C10_ChannelRegistration ==
  nCompiles = 1 /\ Len(trackShader) = 1 =>
    LET given == givenTrack[1].channels
        uniforms == trackShader[1].uniforms
        attributes == trackShader[1].attributes
    IN  \A channel \in RegisteredChannels :
          IF channel \notin DOMAIN given
          THEN /\ channel \in DOMAIN uniforms
               /\ uniforms[channel] = DEFAULT_CHANNELS[channel].value
               /\ channel \notin DOMAIN attributes
          ELSE IF "value" \in DOMAIN given[channel]
          THEN /\ channel \in DOMAIN uniforms
               /\ uniforms[channel] =
                    IF channel = "color"
                    THEN colorSpecifierToHex(given[channel].value)
                    ELSE given[channel].value
               /\ channel \notin DOMAIN attributes
          ELSE /\ channel \in DOMAIN attributes
               /\ channel \notin DOMAIN uniforms

\* the places of the shader code that declare the channel
Declarations(shader, channel) ==
  {i \in 1..Len(shader) : Len(shader[i]) = 2 /\ shader[i][2] = channel}

\* C11: in every compiled track program each channel other than shape, x and
\* y is either a key of the uniforms or a key of the attribute buffers,
\* never both and never neither, and the shader code declares it exactly
\* once, as a uniform or as an attribute accordingly.
C11_RegisteredExactlyOnce ==
  Len(trackShader) = 1 =>
    LET uniforms == trackShader[1].uniforms
        attributes == trackShader[1].attributes
        shader == trackShader[1].shader
    IN  \A channel \in RegisteredChannels :
          /\ (channel \in DOMAIN uniforms) # (channel \in DOMAIN attributes)
          /\ Cardinality(Declarations(shader, channel)) = 1
          /\ \A i \in Declarations(shader, channel) :
               shader[i][1] = IF channel \in DOMAIN uniforms
                              THEN "uniform float" ELSE "attribute float"

\* a track was compiled with color as a buffer, size as the literal it gave,
\* and width as its default
C11_Witness ==
  /\ nCompiles = 1
  /\ Len(trackShader) = 1
  /\ "color" \in DOMAIN trackShader[1].attributes
  /\ "size" \in DOMAIN givenTrack[1].channels
  /\ "size" \in DOMAIN trackShader[1].uniforms
  /\ "width" \in DOMAIN trackShader[1].uniforms

\* C12: x and y are never compiled as constants: whatever the x and y
\* channel objects of a track contain, the compiled program has no uniform
\* named x or y and no declaration of x or y in its shader code.
C12_PositionNeverUniform ==
  Len(trackShader) = 1 =>
    \A channel \in {"x", "y"} :
      /\ channel \notin DOMAIN trackShader[1].uniforms
      /\ Declarations(trackShader[1].shader, channel) = {}

----------------------------------------------------------------------------
(* Properties of the shader code the drawer builds (SpecDrawer) *)

\* prologue, one declaration per registered channel in registration order,
\* epilogue
ExpectedShader(vs) ==
  LET Registered(channel) ==
        channel \in DOMAIN vs.uniforms \cup DOMAIN vs.attributes
      registered == SelectSeq(ChannelOrder, Registered)
  IN  << <<"baseVertexShader">> >>
        \o [i \in 1..Len(registered) |->
              << IF registered[i] \in DOMAIN vs.uniforms
                 THEN "uniform float" ELSE "attribute float",
                 registered[i] >>]
        \o << <<"vertexShaderSuffix">> >>

\* C13: buildShader is memoized: the code it returns is the prologue, the
\* declarations of the channels in registration order and the epilogue, with
\* the epilogue once, however many times render has called it; the program
\* of each built track shader is compiled from that code.
C13_BuildShaderMemoized ==
  \A i \in 1..Len(drawer.trackShaders) :
    drawer.trackShaders[i].built =>
      /\ drawer.trackShaders[i].shader = ExpectedShader(drawer.trackShaders[i])
      /\ i <= Len(drawer.programInfos)
      /\ drawer.programInfos[i] = drawer.trackShaders[i].shader

\* populateBuffers ran twice on the shader of the one-track schema, and
\* render built it both times
C13_Witness ==
  /\ ev.kind = "populateBuffers"
  /\ frame.ran
  /\ Len(drawer.trackShaders) = 1
  /\ drawer.trackShaders[1].built
  /\ Len(drawer.trackShaders[1].attributes["aVertexPosition"].data) =
       2 * Len(calculateForMark(PointTrack, PointTrack.data[1]))
         * Len(PointTrack.data)

\* the channels a track lists that fromTrack does not know, and x or y
\* listed with neither a value nor an attribute
BadChannels(track) ==
  {channel \in DOMAIN track.channels :
     \/ \A i \in 1..Len(ChannelOrder) : ChannelOrder[i] # channel
     \/ /\ channel \in {"x", "y"}
        /\ "value" \notin DOMAIN track.channels[channel]
        /\ "attribute" \notin DOMAIN track.channels[channel]}

\* C14: compiling a track that names a channel outside the enumerated set,
\* or that lists a channel with neither value nor attribute where no default
\* exists, ends in a SchemaError naming the channel and produces no compiled
\* program for the track.
C14_SchemaErrorOnBadChannel ==
  nCompiles = 1 /\ BadChannels(givenTrack[1]) # {} =>
    /\ Len(trackShader) = 0
    /\ Len(compileError) = 1
    /\ compileError[1].name = "SchemaError"
    /\ compileError[1].channel \in BadChannels(givenTrack[1])

\* C15: supplying a new specification is compile-or-rollback: when building
\* its programs fails, the track programs compiled before are unchanged and
\* the frame loop that was running before the call is still requested.
C15_CompileOrRollback ==
  ev.kind = "setSchema" /\ ev.threw =>
    /\ drawer.trackShaders = ev.trackShaders
    /\ scheduled = ev.scheduled


----------------------------------------------------------------------------
(* Properties of the selection handlers (SpecSelect) *)

\* the data point under the pointer
PointerPoint ==
  calculateViewportSpot(currentXRange, currentYRange, pointer[1], pointer[2])

\* C16: in box mode, a drag whose button goes down at one data point and up
\* at a different one gives the consumer exactly one selection, the four
\* scalars [x0, y0, x1, y1] of the two points.
C16_BoxDragSelectsRectangle ==
  ev.kind = "mouseup" /\ drag.box /\ PointerPoint # drag.start
    => selected = <<drag.start \o PointerPoint>>

C16_Witness ==
  /\ ev.kind = "mouseup"
  /\ drag.box
  /\ PointerPoint # drag.start
  /\ Len(selected) = 1
  /\ Len(selected[1]) = 4

\* C17: a box drag whose moves, if any, all landed on the point of the
\* mousedown selects nothing.
C17_DegenerateBoxSelectsNothing ==
  ev.kind = "mouseup" /\ drag.box /\ ~drag.strayed => selected = <<>>

\* C18: a mouseup selects only when the selection meets the threshold of the
\* tool, exactly 4 scalars for box and at least 6 for lasso, and then it
\* selects the points it holds; below the threshold nothing is selected and
\* the points are emptied; in pan and tooltip a mouseup never selects.
C18_SelectsAtThresholdOnly ==
  ev.kind = "mouseup" =>
    LET met == \/ tool = "box" /\ Len(prevSelectionPoints) = 4
               \/ tool = "lasso" /\ Len(prevSelectionPoints) >= 6
    IN  /\ met => selected = <<prevSelectionPoints>>
        /\ ~met => selected = <<>>
        /\ ~met /\ tool \in {"box", "lasso"} => currentSelectionPoints = <<>>

C18_Witness ==
  /\ ev.kind = "mouseup"
  /\ tool = "lasso"
  /\ Len(prevSelectionPoints) = 6
  /\ selected = <<prevSelectionPoints>>

\* C19: after a mouseup that selects, the points of the selection are
\* emptied.
C19_ResetAfterSelection ==
  ev.kind = "mouseup" /\ Len(selected) = 1 => currentSelectionPoints = <<>>

\* C20: a mousedown in box or lasso replaces the points of the selection by
\* the one data point under the pointer, 2 scalars; in pan and tooltip it
\* leaves them as they were.
C20_MousedownStartsSelection ==
  ev.kind = "mousedown" =>
    IF tool \in {"box", "lasso"}
    THEN currentSelectionPoints = PointerPoint
         /\ Len(currentSelectionPoints) = 2
    ELSE currentSelectionPoints = prevSelectionPoints

C20_Witness ==
  /\ ev.kind = "mousedown"
  /\ tool \in {"box", "lasso"}
  /\ Len(prevSelectionPoints) >= 4
  /\ currentSelectionPoints = PointerPoint

\* C21: in box mode, after every mousemove handled with the button down, the
\* selection holds exactly 4 scalars, the point of the mousedown followed by
\* the point under the pointer, whatever mouse events and tool changes came
\* before.
C21_BoxKeepsTwoPoints ==
  ev.kind = "mousemove" /\ tool = "box" /\ mouseDown
    => /\ Len(currentSelectionPoints) = 4
       /\ currentSelectionPoints = drag.start \o PointerPoint

----------------------------------------------------------------------------
(* Properties of scale (SpecScale) *)

ScaleCalled == Len(callResult) = 1
NonDegenerate(ends) == ends[1] # ends[2]

\* C22 as stated: for a domain with d0 # d1 and any range, scale(domain,
\* range) sends d0 to r0 and d1 to r1, and scale(range, domain) brings
\* scale(domain, range)(x) back to x for every x.
C22_InverseForEveryRange ==
  ScaleCalled /\ NonDegenerate(callArgs.domain)
    => /\ callResult[1].atD0 = callArgs.range[1]
       /\ callResult[1].atD1 = callArgs.range[2]
       /\ callResult[1].back = callArgs.x

\* C22, amended: for a domain with d0 # d1, scale(domain, range) sends d0 to
\* r0 and d1 to r1; when also r0 # r1, scale(range, domain) brings
\* scale(domain, range)(x) back to x for every x.
C22_InverseOfScale ==
  ScaleCalled /\ NonDegenerate(callArgs.domain)
    => /\ callResult[1].atD0 = callArgs.range[1]
       /\ callResult[1].atD1 = callArgs.range[2]
       /\ NonDegenerate(callArgs.range)
            => callResult[1].back = callArgs.x

C22_Witness ==
  /\ ScaleCalled
  /\ NonDegenerate(callArgs.domain)
  /\ NonDegenerate(callArgs.range)
  /\ callResult[1].y # callArgs.x
  /\ callResult[1].back = callArgs.x

\* C23: building a scale over a domain with d0 = d1 fails with
\* InvalidDomainError, and no scale that was returned gives a value that is
\* not finite.
C23_DegenerateDomainFails ==
  ScaleCalled
    => /\ ~NonDegenerate(callArgs.domain)
            => callResult[1].threw = <<"InvalidDomainError">>
       /\ Len(callResult[1].threw) = 0 => isFinite(callResult[1].y)

----------------------------------------------------------------------------
(* Properties of the genome scale (SpecGenome) *)

GenomeCalled == Len(callResult) = 1

\* offset(C): the sum of the sizes of the chromosomes before C in the table
KeyIndex(chr) == CHOOSE i \in 1..Len(genomeSizes) : genomeSizes[i].key = chr
RECURSIVE SizesBefore(_)
SizesBefore(i) == IF i = 1 THEN 0
                  ELSE SizesBefore(i - 1) + genomeSizes[i - 1].size
Offset(chr) == SizesBefore(KeyIndex(chr))

\* C24: a genome scale built for the domain [lo, hi], with lo and hi two
\* different positions, maps lo to -1 and hi to 1, and the genome index of a
\* position chrC:P is offset(C) + P.
C24_ScaleSpansDomain ==
  GenomeCalled =>
    /\ callResult[1].index = Offset(callArgs.chr) + callArgs.pair
    /\ callArgs.domain[1] # callArgs.domain[2]
         => /\ callResult[1].lo = Num(-1)
            /\ callResult[1].hi = Num(1)

C24_Witness ==
  /\ GenomeCalled
  /\ callArgs.domain = <<pairString(<<"2">>, 1), pairString(<<"X">>, 2)>>
  /\ callResult[1].pairsInDomain = <<4, 7>>
  /\ callResult[1].lo = Num(-1)
  /\ callResult[1].hi = Num(1)

\* C25: for every chromosome C of the table and every position P with
\* 1 <= P <= size(C), the scan for the first chromosome whose cumulative size
\* is at least offset(C) + P gives back (C, P); so does the inverse of the
\* clip value of chrC:P, for a domain of two different positions.
C25_DecodingInvertsEncoding ==
  GenomeCalled =>
    /\ callResult[1].located = <<callArgs.chr, callArgs.pair>>
    /\ callArgs.domain[1] # callArgs.domain[2]
         => callResult[1].inverse = pairString(callArgs.chr, callArgs.pair)

C25_Witness ==
  /\ GenomeCalled
  /\ callArgs.chr = <<"X">>
  /\ callArgs.pair = 4
  /\ callArgs.domain[1] # callArgs.domain[2]
  /\ callResult[1].index = 9
  /\ callResult[1].located = <<(<<"X">>), 4>>
  /\ callResult[1].inverse = pairString(<<"X">>, 4)

----------------------------------------------------------------------------
(* Properties of the color packing (SpecColor) *)

\* C26: for components r, g, b in 0..255, rgbToHex(r, g, b) is
\* r * 65536 + g * 256 + b, the value of (r << 16) | (g << 8) | b, it lies in
\* 0..16777215, and the steps of unpackColor recover r, g and b (which the
\* shader returns divided by 256).
C26_ColorPackingLossless ==
  Len(callResult) = 1 =>
    /\ callResult[1].hex
         = callArgs.red * 65536 + callArgs.green * 256 + callArgs.blue
    /\ callResult[1].hex \in 0..16777215
    /\ callResult[1].unpacked = << Norm(callArgs.red, 256),
                                   Norm(callArgs.green, 256),
                                   Norm(callArgs.blue, 256) >>

C26_Witness ==
  /\ Len(callResult) = 1
  /\ callArgs = [red |-> 255, green |-> 128, blue |-> 1]
  /\ callResult[1].hex = 16744449
  /\ callResult[1].unpacked = << Norm(255, 256), Norm(128, 256),
                                 Norm(1, 256) >>

----------------------------------------------------------------------------
(* Properties of the viewport the drawer computes (Spec) *)

----------------------------------------------------------------------------
(* Properties of a repeated wheel event (SpecZoom) *)

\* the repeated event leaves both ranges as they are
ZoomFixed ==
  wheelRanges(callArgs.wheelDelta, callArgs.layerX, callArgs.layerY)
    = <<currentXRange, currentYRange>>

Width(range) == RSub(range[2], range[1])

C29_FactorClamped ==
  ev.kind = "wheel" /\ currentXRange # prevXRange
    => RLe(Num(-1), WheelT) /\ RLe(WheelT, Num(1))

----------------------------------------------------------------------------
(* Properties of what the reader hands on (Spec) *)

\* C30: when a wheel or pan handler returns, also after a rollback and with
\* an axis locked, the viewport last sent to the drawer and the ranges last
\* given to the overlay are the reader's current x and y ranges: the drawer
\* is sent the state after the range update.
C30_DrawerAndOverlayInSync ==
  ev.kind \in {"wheel", "pan"} =>
    /\ drawer.currentXRange = currentXRange
    /\ drawer.currentYRange = currentYRange
    /\ drawer.minX = minX /\ drawer.maxX = maxX
    /\ drawer.minY = minY /\ drawer.maxY = maxY
    /\ overlay = <<currentXRange, currentYRange>>

\* a wheel event changed the y range with the x axis locked
C30_Witness ==
  /\ ev.kind = "wheel"
  /\ lockedX
  /\ currentXRange = prevXRange
  /\ currentYRange # prevYRange
  /\ drawer.currentYRange = currentYRange
  /\ overlay = <<currentXRange, currentYRange>>

----------------------------------------------------------------------------
(* Properties of the ticks (SpecTicks) *)

TicksCalled == Len(callResult) = 1

\* the ends of the span are on one chromosome, the end after the start
SameChromosomeSpan ==
  /\ TicksCalled
  /\ callResult[1].startChr = callResult[1].endChr
  /\ isFinite(callResult[1].startPair) /\ isFinite(callResult[1].endPair)
  /\ callResult[1].endPair[1] > callResult[1].startPair[1]

\* the power of ten p with p <= difference < 10 p
StepOf(difference) ==
  CHOOSE p \in {1, 10, 100, 1000} : p <= difference /\ difference < 10 * p

\* C31: when both ends of the span decode to the same chromosome with the end
\* position above the start position, every tick position is a multiple of
\* 10^floor(log10(end - start)) and below the end position, there are between
\* 1 and 11 ticks, and there are as many labels as ticks.
C31_TicksOfOneChromosome ==
  SameChromosomeSpan =>
    LET r == callResult[1]
        step == StepOf(r.endPair[1] - r.startPair[1])
    IN  /\ Len(r.tickCoords) >= 1 /\ Len(r.tickCoords) <= 11
        /\ Len(r.tickValues) = Len(r.tickCoords)
        /\ Len(r.tickLabels) = Len(r.tickCoords)
        /\ \A i \in 1..Len(r.tickValues) :
             /\ r.tickValues[i] % step = 0
             /\ r.tickValues[i] < r.endPair[1]

\* a span from 14 to 115 of chromosome 1: step 100, ticks at 0 and at 100
C31_Witness ==
  /\ SameChromosomeSpan
  /\ callResult[1].startPair = Num(14)
  /\ callResult[1].endPair = Num(115)
  /\ callResult[1].tickValues = <<0, 100>>
  /\ Len(callResult[1].tickLabels) = 2

----------------------------------------------------------------------------
(* Properties of panning with the pointer (SpecSelect) *)

\* C32: after a mouseleave received while the tool is pan, no mousemove
\* changes the current ranges until the next mousedown.
C32_NoPanAfterLeave ==
  [][drag.left /\ ev'.kind \in {"mousemove", "pan"}
       => /\ ev'.kind = "mousemove"
          /\ currentXRange' = currentXRange
          /\ currentYRange' = currentYRange]_vars

\* the pointer left during a pan that had moved the range, and has moved
\* again since, the tool still being pan
C32_Witness ==
  /\ drag.left
  /\ tool = "pan"
  /\ ev.kind = "mousemove"
  /\ currentXRange = prevXRange
  /\ currentXRange # <<minX, maxX>>

----------------------------------------------------------------------------
(* Properties of the frame requests (SpecDrawer) *)

\* C33: after any sequence of setSchema calls, data-loaded callbacks and
\* frames, at most one animation-frame request is outstanding.
C33_OneFrameRequest == Cardinality(scheduled) <= 1

\* populateBuffers rendered while a request was outstanding, and one request
\* is outstanding after it
C33_Witness ==
  /\ ev.kind = "populateBuffers"
  /\ ev.scheduled # {}
  /\ Cardinality(scheduled) = 1

----------------------------------------------------------------------------
(* Properties of overlapping setSchema calls (SpecDrawer) *)

\* the data of every buffer of every track shader
Buffers(shaders) ==
  [i \in 1..Len(shaders) |->
     [channel \in DOMAIN shaders[i].attributes |->
        shaders[i].attributes[channel].data]]

\* the buffers that hold the marks of the schema, each mark once
BuffersOf(id) ==
  Buffers(fillTracks(fromSchema(Schemas[id]), Schemas[id]).trackShaders)

\* every callback has run, and one of them belonged to a setSchema call that
\* another setSchema call followed before the callback ran
OverlappedLoadsDone ==
  /\ ev.kind = "populateBuffers"
  /\ loading = {}
  /\ ev.helper.early \/ ev.helper.gen < ev.helper.latestGen

\* C34: if setSchema is called again before the callback of the call before
\* has run, then once the callbacks have run the buffers of the track shaders
\* hold exactly the marks of the latest schema, each mark once.
C34_BuffersOfLatestSchema ==
  OverlappedLoadsDone => Buffers(drawer.trackShaders) = BuffersOf(ev.helper.latest)

----------------------------------------------------------------------------
(* Properties of the frames a scheduler can run (SpecDrawer) *)

\* the drawer is dirty and the data of a schema has been loaded and rendered
DirtyAfterLoad == rebuiltGen > 0 /\ drawer.needsAnimation

\* C35: whenever the drawer is dirty after a schema has finished loading, a
\* later frame draws and clears the flag.  A scheduler, however fair, runs
\* only the frames that were requested, and the only other caller of animate
\* is render in the callback of a SchemaProcessor: a frame can come only
\* while a request is outstanding or a callback is due.
C35_DirtyHasFrameComing ==
  DirtyAfterLoad => scheduled # {} \/ loading # {}

----------------------------------------------------------------------------
(* Properties of the width of the ranges (Spec) *)

\* C36: from a data extent of positive width on both axes, after any
\* sequence of wheel and pan events both current ranges have strictly
\* positive width (min < max).
C36_PositiveWidth ==
  /\ RLt(currentXRange[1], currentXRange[2])
  /\ RLt(currentYRange[1], currentYRange[2])

----------------------------------------------------------------------------
(* Properties of compiling a track again (SpecCompile) *)

\* C37: fromTrack applied twice to the same track object yields the same
\* uniform channels with the same values and the same attribute-buffer
\* channels both times, for every channel value and color specifier.
C37_CompilingIsRepeatable ==
  nCompiles = 2 /\ Len(trackShader) = 1 =>
    LET first == fromTrack(givenTrack[1])
    IN  /\ trackShader[1].uniforms = first.uniforms
        /\ DOMAIN trackShader[1].attributes = DOMAIN first.attributes

----------------------------------------------------------------------------
(* Properties of the selection the overlay shows (SpecSelect) *)

\* C38: once a pointer handler has returned, the selection polygon of the
\* overlay is the one of _currentSelectionPoints: in particular it is empty
\* when mouseup has emptied the points.
C38_SelectionShapeMatches ==
  ev.kind \in {"mousedown", "mousemove", "mouseup", "mouseleave", "pan"} =>
    selectMarker = updateSelectView(currentSelectionPoints,
                                    overlay[1], overlay[2])

----------------------------------------------------------------------------
(* Properties of the direction of a wheel event (Spec) *)

\* the range is the whole extent of its axis
FullExtent(range, lo, hi) == range = <<lo, hi>>

\* C39: with the pointer inside the element, a wheel event reported as
\* zoomIn (wheelDelta < 0) makes the range of neither axis wider, and one
\* reported as zoomOut makes the range of neither axis narrower; at full
\* extent a zoomOut leaves the range unchanged.
C39_WheelDirection ==
  ev.kind = "wheel" =>
    /\ ev.wheelDelta < 0 =>
         /\ RLe(Width(currentXRange), Width(prevXRange))
         /\ RLe(Width(currentYRange), Width(prevYRange))
    /\ ~(ev.wheelDelta < 0) =>
         /\ RLe(Width(prevXRange), Width(currentXRange))
         /\ RLe(Width(prevYRange), Width(currentYRange))
         /\ FullExtent(prevXRange, minX, maxX) => currentXRange = prevXRange
         /\ FullExtent(prevYRange, minY, maxY) => currentYRange = prevYRange

\* a zoomOut that found the x range at full extent and the y range inside
\* its extent: x is unchanged and y is wider
C39_Witness ==
  /\ ev.kind = "wheel"
  /\ ev.wheelDelta > 0
  /\ FullExtent(prevXRange, minX, maxX)
  /\ currentXRange = prevXRange
  /\ RLt(Width(prevYRange), Width(currentYRange))

----------------------------------------------------------------------------
(* Properties of the width of a panned range (Spec) *)

\* C40: a pan translates and does not zoom: after every pan event the width
\* of the current range on each axis is its width before the pan, also when
\* the range touches an edge of the data extent.
C40_PanKeepsWidth ==
  ev.kind = "pan" =>
    /\ Width(currentXRange) = Width(prevXRange)
    /\ Width(currentYRange) = Width(prevYRange)

====
